---- MODULE Spec2Model ----
(***************************************************************************)
(* Slothbuckler (Unsloth-UI): the React front end (App, TrainingConfig,    *)
(* TrainingProgress, DockerSetup and the fetch wrappers) together with the *)
(* HTTP back end it talks to.  The front end is translated from the        *)
(* TypeScript sources; the back end (training job controller, Docker       *)
(* lifecycle controller) is not part of the TypeScript tree and is         *)
(* modelled from its contract in spec.md.                                  *)
(*                                                                         *)
(* Every await in a handler is a point where other handlers may run, so a  *)
(* handler is one action up to its await and one action for each way the   *)
(* awaited promise settles.  State of a React component lives only while   *)
(* the component is mounted: App renders exactly one of the tab components,*)
(* so a tab change unmounts one component (its state is discarded, later   *)
(* setState calls of its pending closures have no effect) and mounts       *)
(* another one with its initial state and its mount effects.               *)
(***************************************************************************)
EXTENDS Integers, Sequences, FiniteSets, Bags, TLC

(* ------------------------------ bounds ------------------------------- *)
MaxInFlight == 2       \* asynchronous calls and timers pending at one time
MaxRuns == 2           \* TrainingRuns the history can hold
TotalSteps == 1        \* steps of one training job
MaxFetches == 3        \* fetches useResources makes beyond those of Init
MaxTokenLen == 10      \* characters of a token given to maskToken

DatasetNames == {"a.json"}
OutputNames == {"m"}

VARIABLES
  activeTab, isTraining, dockerReady, readyCheck,      \* App
  config, starting, datasets, dsLoad, alert,           \* TrainingConfig
  startReqs,                                           \* startTraining calls
  status, statusRun, polls, stopReqs,                  \* TrainingProgress
  dockerStatus, checking, containers, selectedContainer, \* DockerSetup
  checks, timers, dockerReqs,
  job, runs, files,                                    \* training back end
  runtime,                                             \* container runtime
  availableModels, mdLoad,                             \* TrainingConfig
  uploading, uploadedFile, upDatasets, upLoad,         \* DatasetUpload
  uploadReqs,
  selectedRunId, runDetails, rdLoading, rdError,       \* TrainingHistory
  runLoads,
  hfToken, savedToken, saving, message, tkLoad,        \* Settings
  tokenReqs,
  storedToken,                                         \* settings back end
  models, mtLoad, selectedModel, prompt, result,       \* ModelTesting
  loading, error, inferReqs,
  resources, history, resError, resPolls,              \* useResources
  sampleNo, arrived,
  token, masked                                        \* Settings.maskToken

appVars == <<activeTab, isTraining, dockerReady, readyCheck>>
mdlVars == <<availableModels, mdLoad>>
cfgVars == <<config, starting, datasets, dsLoad, mdlVars>>
uplVars == <<uploading, uploadedFile, upDatasets, upLoad, uploadReqs>>
histVars == <<selectedRunId, runDetails, rdLoading, rdError, runLoads>>
progVars == <<status, statusRun, polls>>
dockVars == <<dockerStatus, checking, containers, selectedContainer>>
dockNetVars == <<checks, timers, dockerReqs>>
backVars == <<job, runs, files>>
setVars == <<hfToken, savedToken, saving, message, tkLoad, tokenReqs>>
mtVars == <<models, mtLoad, selectedModel, prompt, result, loading, error,
           inferReqs>>
resVars == <<resources, history, resError, resPolls, sampleNo, arrived>>
maskVars == <<token, masked>>
\* the components App does not render, and the settings store
extVars == <<mtVars, resVars, maskVars, storedToken>>
vars == <<appVars, cfgVars, alert, startReqs, progVars, stopReqs,
          dockVars, dockNetVars, backVars, runtime, uplVars, histVars,
          setVars, extVars>>

(* ------------------------------ helpers ------------------------------ *)
\* pending fetch calls and setTimeout timers of the components
InFlight ==
  Len(startReqs) + BagCardinality(polls) + stopReqs + Len(checks) + Len(timers)
    + Len(dockerReqs) + Len(uploadReqs) + Len(runLoads) + Len(tokenReqs)
    + Len(inferReqs) + Len(resPolls)
CanIssue == InFlight < MaxInFlight

Null == [null |-> TRUE]
NullName == "null"
LossNull == 0 - 1

RemoveAt(s, i) == SubSeq(s, 1, i - 1) \o SubSeq(s, i + 1, Len(s))

\* setState of a closure whose component has been unmounted has no effect
Kill(s) == [i \in DOMAIN s |-> [s[i] EXCEPT !.live = FALSE]]

\* a checkStatus closure of an unmounted DockerSetup can still call onReady;
\* one that can no longer change anything (dockerReady is already set, or its
\* response does not report a running container) is dropped
RunningCheck(c) == c.status.container_running
KillChecks(s, ready) == IF ready THEN <<>> ELSE SelectSeq(Kill(s), RunningCheck)

\* an upload whose DatasetUpload has been unmounted can still reach the server
\* and can still end in alert(); once its upload call has resolved nothing it
\* does can be seen, and it is dropped
PendingUpload(u) == u.phase \in {"sent", "stored", "refused"}
KillUploads(s) == SelectSeq(Kill(s), PendingUpload)

Tabs == {"docker", "settings", "upload", "train", "progress"}
GatedTabs == {"upload", "train", "progress"}
Terminal == {"completed", "failed"}

(* -------------------------- TrainingConfig --------------------------- *)
DefaultModel == "unsloth/llama-3.1-8b-bnb-4bit"

DefaultConfig ==
  [model_name |-> DefaultModel, dataset_path |-> "", max_seq_length |-> 2048,
   num_epochs |-> 1, batch_size |-> 2, gradient_accumulation_steps |-> 4,
   lora_r |-> 16, lora_alpha |-> 16, output_dir |-> ""]

\* value of a dataset <option>
DatasetPath(name) == "../work/datasets/" \o name

\* variant: the directory is put in front of a name that already has it
StartPayloadTwice(c) ==
  [c EXCEPT !.output_dir = "../work/models/" \o "../work/models/"
                             \o c.output_dir]

\* the object handed to startTraining
StartPayload(c) == [c EXCEPT !.output_dir = "../work/models/" \o c.output_dir]

\* DEFAULT_MODELS
DefaultModels ==
  <<DefaultModel, "unsloth/mistral-7b-v0.3-bnb-4bit",
    "unsloth/Qwen2.5-7B-bnb-4bit", "unsloth/gemma-2-9b-bnb-4bit",
    "unsloth/Phi-3.5-mini-instruct">>

(* ------------------------- TrainingProgress -------------------------- *)
InitialStatusRunning ==
  [running |-> TRUE, progress |-> 0, current_step |-> 0, total_steps |-> 0,
   loss |-> LossNull, message |-> "No training in progress"]

InitialStatus ==
  [running |-> FALSE, progress |-> 0, current_step |-> 0, total_steps |-> 0,
   loss |-> LossNull, message |-> "No training in progress"]

(* ------------------- training back end (contract) -------------------- *)
\* progress fraction, in percent
Progress(step) == (step * 100) \div TotalSteps

JobMessage ==
  IF job.running THEN "Training in progress"
  ELSE IF runs[job.run].status = "completed" THEN "Training completed"
  ELSE "Training failed"

\* GET /training/status
TrainingStatus ==
  IF Len(runs) = 0
  THEN [running |-> FALSE, progress |-> 0, current_step |-> 0,
        total_steps |-> 0, loss |-> LossNull,
        message |-> "No training in progress"]
  ELSE [running |-> job.running, progress |-> Progress(job.step),
        current_step |-> job.step, total_steps |-> TotalSteps,
        loss |-> IF job.step = 0 THEN LossNull ELSE TotalSteps - job.step,
        message |-> JobMessage]

DatasetExists(path) == \E d \in files : path = DatasetPath(d)

\* seal the active run
Seal(st) ==
  /\ runs' = [runs EXCEPT ![job.run].status = st]
  /\ job' = [job EXCEPT !.running = FALSE]

(* --------------------- Docker back end (contract) -------------------- *)
ContainerName == "unsloth-training"

\* GET /docker/status
DockerStatusOf(rt) ==
  [docker_installed |-> rt.installed,
   image_pulled |-> rt.image,
   container_running |-> rt.container = "running",
   container_id |-> IF rt.container = "running" THEN "c1" ELSE NullName,
   container_name |-> IF rt.container = "running" THEN ContainerName
                      ELSE NullName,
   message |-> IF ~rt.installed THEN "Docker is not installed"
               ELSE IF ~rt.image THEN "Image not found"
               ELSE IF rt.container = "running" THEN "Container is running"
               ELSE "Container is not running"]

\* GET /docker/containers
ContainersOf(rt) ==
  IF rt.installed /\ rt.container # "none"
  THEN {[name |-> ContainerName, status |-> rt.container]}
  ELSE {}

\* the status set by checkStatus's catch block
FailedStatus ==
  [docker_installed |-> FALSE, image_pulled |-> FALSE,
   container_running |-> FALSE, container_id |-> NullName,
   container_name |-> NullName, message |-> "Failed to check Docker status"]

Runtimes ==
  { [installed |-> FALSE, image |-> FALSE, container |-> "none"],
    [installed |-> TRUE, image |-> FALSE, container |-> "none"],
    [installed |-> TRUE, image |-> TRUE, container |-> "stopped"],
    [installed |-> TRUE, image |-> TRUE, container |-> "running"] }

\* one checkStatus call: both fetches of Promise.all, answered by the server
NewCheck == [live |-> TRUE, status |-> DockerStatusOf(runtime),
             list |-> ContainersOf(runtime)]

(* ------------------------------- Init -------------------------------- *)
\* initial state of DatasetUpload (with useDatasets) and of TrainingHistory
\* (with useTrainingRun); a null runId is written 0, which the hook's effect
\* treats like null
UploadInit ==
  /\ uploading = FALSE /\ uploadedFile = NullName /\ upDatasets = {}
  /\ upLoad = FALSE /\ uploadReqs = <<>>

HistoryHookInit ==
  /\ selectedRunId = 0 /\ runDetails = Null /\ rdLoading = FALSE
  /\ rdError = NullName /\ runLoads = <<>>

\* Settings is not mounted; no token is stored
SettingsInit ==
  /\ hfToken = "" /\ savedToken = "" /\ saving = FALSE /\ message = Null
  /\ tkLoad = FALSE /\ tokenReqs = <<>>
  /\ storedToken = ""

\* ModelTesting just mounted
TestingInit ==
  /\ models = <<>> /\ mtLoad = TRUE /\ selectedModel = "" /\ prompt = ""
  /\ result = "" /\ loading = FALSE /\ error = "" /\ inferReqs = <<>>

\* useResources after its first n fetches, made one after the other, have
\* all succeeded; sample k stands for the k-th snapshot the server gave
ResourcesInit(n) ==
  /\ history = [k \in 1..n |-> k] /\ arrived = history
  /\ resources = (IF n = 0 THEN Null ELSE [sample |-> n])
  /\ resError = NullName /\ resPolls = <<>> /\ sampleNo = n

MaskInit == token = <<>> /\ masked = <<>>

ExtInit == TestingInit /\ ResourcesInit(0) /\ MaskInit

Init ==
  /\ activeTab = "docker" /\ isTraining = FALSE /\ dockerReady = FALSE
  /\ readyCheck = "pending"
  /\ config = DefaultConfig /\ starting = FALSE /\ datasets = {}
  /\ dsLoad = FALSE /\ alert = ""
  /\ startReqs = <<>>
  /\ status = InitialStatus /\ statusRun = 0 /\ polls = EmptyBag
  /\ stopReqs = 0
  /\ runtime \in Runtimes
  /\ dockerStatus = Null /\ checking = TRUE /\ containers = {}
  /\ selectedContainer = NullName
  /\ checks = <<NewCheck>> /\ timers = <<>> /\ dockerReqs = <<>>
  /\ job = [running |-> FALSE, step |-> 0, run |-> 0]
  /\ runs = <<>>
  /\ files \in SUBSET DatasetNames
  /\ availableModels = DefaultModels /\ mdLoad = FALSE
  /\ UploadInit
  /\ HistoryHookInit
  /\ SettingsInit
  /\ ExtInit

(* ------------------------ mounting / unmounting ---------------------- *)
\* App renders the component of tab t instead of the one of activeTab
\* (t # activeTab).  startReqs is left to the caller.
Switch(t) ==
  /\ activeTab' = t
  /\ IF activeTab = "train" \/ t = "train"
     THEN /\ config' = DefaultConfig /\ starting' = FALSE /\ datasets' = {}
          /\ dsLoad' = (t = "train")
          /\ availableModels' = DefaultModels /\ mdLoad' = (t = "train")
     ELSE UNCHANGED cfgVars
  /\ IF activeTab = "upload" \/ t = "upload"
     THEN /\ uploading' = FALSE /\ uploadedFile' = NullName
          /\ upDatasets' = {} /\ upLoad' = (t = "upload")
          /\ uploadReqs' = KillUploads(uploadReqs)
     ELSE UNCHANGED uplVars
  /\ IF activeTab = "progress" \/ t = "progress"
     THEN status' = InitialStatus /\ statusRun' = 0 /\ polls' = EmptyBag
     ELSE UNCHANGED progVars
  /\ IF activeTab = "docker" \/ t = "docker"
     THEN /\ dockerStatus' = Null /\ checking' = TRUE /\ containers' = {}
          /\ selectedContainer' = NullName
          /\ checks' = IF t = "docker" THEN Append(checks, NewCheck)
                       ELSE KillChecks(checks, dockerReady)
          /\ timers' = Kill(timers)
          /\ dockerReqs' = Kill(dockerReqs)
     ELSE UNCHANGED <<dockVars, dockNetVars>>
  /\ IF activeTab = "settings" \/ t = "settings"
     THEN /\ hfToken' = "" /\ savedToken' = "" /\ saving' = FALSE
          /\ message' = Null /\ tkLoad' = (t = "settings")
          /\ tokenReqs' = Kill(tokenReqs)
     ELSE UNCHANGED setVars

StartReqsAfterSwitch(s) == IF activeTab = "train" THEN Kill(s) ELSE s

(* -------------------------------- App -------------------------------- *)
\* variant: no tab button is ever disabled
SetActiveTabUngated(t) ==
  /\ t # activeTab
  /\ t = "docker" => CanIssue
  /\ Switch(t)
  /\ startReqs' = StartReqsAfterSwitch(startReqs)
  /\ UNCHANGED <<histVars, isTraining, dockerReady, readyCheck, alert,
                 stopReqs, backVars, runtime, extVars>>

\* tab buttons: Dataset, Training and Progress are disabled until dockerReady
SetActiveTab(t) ==
  /\ t # activeTab
  /\ t \in GatedTabs => dockerReady
  /\ t = "docker" => CanIssue
  /\ Switch(t)
  /\ startReqs' = StartReqsAfterSwitch(startReqs)
  /\ UNCHANGED <<histVars, isTraining, dockerReady, readyCheck, alert,
                 stopReqs, backVars, runtime, extVars>>

\* checkIfReady: checkDockerStatus() resolved
CheckIfReadyResolve ==
  /\ readyCheck = "pending"
  /\ readyCheck' = "done"
  /\ dockerReady' = (dockerReady \/ runtime.container = "running")
  /\ UNCHANGED <<uplVars, histVars, activeTab, isTraining, cfgVars, alert,
                 startReqs, progVars, stopReqs, dockVars, dockNetVars,
                 backVars, runtime, setVars, extVars>>

\* checkIfReady: checkDockerStatus() rejected
CheckIfReadyFail ==
  /\ readyCheck = "pending"
  /\ readyCheck' = "done"
  /\ UNCHANGED <<uplVars, histVars, activeTab, isTraining, dockerReady,
                 cfgVars, alert, startReqs, progVars, stopReqs, dockVars,
                 dockNetVars, backVars, runtime, setVars, extVars>>

(* -------------------------- TrainingConfig --------------------------- *)
\* loadDatasets (mount effect): listDatasets() resolved
LoadDatasets ==
  /\ activeTab = "train" /\ dsLoad
  /\ dsLoad' = FALSE
  /\ datasets' = files
  /\ UNCHANGED <<uplVars, histVars, mdlVars, appVars, config, starting, alert,
                 startReqs, progVars, stopReqs, dockVars, dockNetVars,
                 backVars, runtime, setVars, extVars>>

\* loadDatasets: listDatasets() rejected
LoadDatasetsFail ==
  /\ activeTab = "train" /\ dsLoad
  /\ dsLoad' = FALSE
  /\ UNCHANGED <<uplVars, histVars, mdlVars, appVars, config, starting,
                 datasets, alert, startReqs, progVars, stopReqs, dockVars,
                 dockNetVars, backVars, runtime, setVars, extVars>>

\* answers GET /docker/models can give: no model, the default list, a list
\* without the default model, a list with it in second place
ModelLists ==
  {<<>>, DefaultModels, <<"unsloth/tinyllama-bnb-4bit">>,
   <<"unsloth/tinyllama-bnb-4bit", DefaultModel>>}

\* loadModels (mount effect) after getAvailableModels() resolved with list
\* ms.  `config` is the one of the render the effect ran in, the first one
\* of this mount, whose state is the useState initial value.
LoadModels(ms) ==
  /\ activeTab = "train" /\ mdLoad
  /\ mdLoad' = FALSE
  /\ IF Len(ms) > 0
     THEN /\ availableModels' = ms
          /\ IF \A k \in DOMAIN ms : ms[k] # DefaultConfig.model_name
             THEN config' = [DefaultConfig EXCEPT !.model_name = ms[1]]
             ELSE UNCHANGED config
     ELSE UNCHANGED <<availableModels, config>>
  /\ UNCHANGED <<uplVars, histVars, appVars, starting, datasets, dsLoad,
                 alert, startReqs, progVars, stopReqs, dockVars, dockNetVars,
                 backVars, runtime, setVars, extVars>>

\* loadModels: getAvailableModels() rejected; the default models stay
LoadModelsFail ==
  /\ activeTab = "train" /\ mdLoad
  /\ mdLoad' = FALSE
  /\ UNCHANGED <<uplVars, histVars, appVars, config, starting, datasets,
                 dsLoad, availableModels, alert, startReqs, progVars,
                 stopReqs, dockVars, dockNetVars, backVars, runtime, setVars,
                 extVars>>

\* model <select> onChange
SelectModel(k) ==
  /\ activeTab = "train" /\ k \in DOMAIN availableModels
  /\ config.model_name # availableModels[k]
  /\ config' = [config EXCEPT !.model_name = availableModels[k]]
  /\ UNCHANGED <<uplVars, histVars, mdlVars, appVars, starting, datasets,
                 dsLoad, alert, startReqs, progVars, stopReqs, dockVars,
                 dockNetVars, backVars, runtime, setVars, extVars>>

\* dataset <select> onChange
SelectDataset(d) ==
  /\ activeTab = "train" /\ d \in datasets
  /\ config.dataset_path # DatasetPath(d)
  /\ config' = [config EXCEPT !.dataset_path = DatasetPath(d)]
  /\ UNCHANGED <<uplVars, histVars, mdlVars, appVars, starting, datasets,
                 dsLoad, alert, startReqs, progVars, stopReqs, dockVars,
                 dockNetVars, backVars, runtime, setVars, extVars>>

\* output name <input> onChange
SetOutputDir(o) ==
  /\ activeTab = "train" /\ config.output_dir # o
  /\ config' = [config EXCEPT !.output_dir = o]
  /\ UNCHANGED <<uplVars, histVars, mdlVars, appVars, starting, datasets,
                 dsLoad, alert, startReqs, progVars, stopReqs, dockVars,
                 dockNetVars, backVars, runtime, setVars, extVars>>

\* the submit button is disabled while starting or while a field is empty
SubmitEnabled ==
  /\ activeTab = "train" /\ ~starting
  /\ config.dataset_path # "" /\ config.output_dir # ""

NewStartReq ==
  [payload |-> StartPayload(config), live |-> TRUE, resp |-> "none"]

\* variant: the form refuses to dispatch once a start has succeeded
HandleSubmitLocalReject ==
  /\ SubmitEnabled
  /\ CanIssue
  /\ starting' = TRUE
  /\ IF isTraining
     THEN alert' = "Training already running" /\ UNCHANGED startReqs
     ELSE startReqs' = Append(startReqs, NewStartReq) /\ UNCHANGED alert
  /\ UNCHANGED <<uplVars, histVars, mdlVars, appVars, config, datasets,
                 dsLoad, progVars, stopReqs, dockVars, dockNetVars, backVars,
                 runtime, setVars, extVars>>

\* handleSubmit up to `await startTraining(...)`
HandleSubmit ==
  /\ SubmitEnabled
  /\ CanIssue
  /\ starting' = TRUE
  /\ startReqs' = Append(startReqs, NewStartReq)
  /\ UNCHANGED <<uplVars, histVars, mdlVars, appVars, config, datasets,
                 dsLoad, alert, progVars, stopReqs, dockVars, dockNetVars,
                 backVars, runtime, setVars, extVars>>

\* variant: the app notes that training started but stays on the form
StartResolveStay(i) ==
  /\ i \in DOMAIN startReqs /\ startReqs[i].resp # "none"
  /\ isTraining' = TRUE
  /\ starting' = IF startReqs[i].live THEN FALSE ELSE starting
  /\ startReqs' = RemoveAt(startReqs, i)
  /\ UNCHANGED <<activeTab, dockerReady, readyCheck, config, datasets, dsLoad,
                 mdlVars, alert, progVars, stopReqs, dockVars, dockNetVars,
                 backVars, runtime, uplVars, histVars, setVars, extVars>>

\* handleSubmit after startTraining resolved: response.json() is returned
\* whatever the status code or body says, so onTrainingStart() runs and then
\* the finally block
StartResolve(i) ==
  /\ i \in DOMAIN startReqs /\ startReqs[i].resp # "none"
  /\ isTraining' = TRUE
  /\ IF activeTab = "progress"
     THEN /\ startReqs' = RemoveAt(startReqs, i)
          /\ UNCHANGED <<activeTab, cfgVars, progVars, dockVars, dockNetVars,
                         uplVars, setVars>>
     ELSE /\ Switch("progress")
          /\ startReqs' = StartReqsAfterSwitch(RemoveAt(startReqs, i))
  /\ UNCHANGED <<histVars, dockerReady, readyCheck, alert, stopReqs,
                 backVars, runtime, extVars>>

\* handleSubmit after startTraining rejected (fetch failed, or the body is
\* not JSON): catch and finally blocks
StartFail(i) ==
  /\ i \in DOMAIN startReqs
  /\ alert' = "Failed to start training"
  /\ starting' = IF startReqs[i].live THEN FALSE ELSE starting
  /\ startReqs' = RemoveAt(startReqs, i)
  /\ UNCHANGED <<uplVars, histVars, mdlVars, appVars, config, datasets,
                 dsLoad, progVars, stopReqs, dockVars, dockNetVars, backVars,
                 runtime, setVars, extVars>>

(* ------------------------- TrainingProgress -------------------------- *)
\* variant: the interval is cleared once a terminal status is on display
FetchStatusUntilTerminal ==
  /\ activeTab = "progress" /\ isTraining
  /\ status.running \/ statusRun = 0
  /\ CanIssue
  /\ polls' = polls (+) SetToBag({[status |-> TrainingStatus,
                                   run |-> Len(runs)]})
  /\ UNCHANGED <<uplVars, histVars, appVars, cfgVars, alert, startReqs,
                 status, statusRun, stopReqs, dockVars, dockNetVars,
                 backVars, runtime, setVars, extVars>>

\* setInterval(fetchStatus, 1000), armed only while isTraining: fetchStatus
\* up to `await getTrainingStatus()`; the server answers with its snapshot
FetchStatus ==
  /\ activeTab = "progress" /\ isTraining
  /\ CanIssue
  /\ polls' = polls (+) SetToBag({[status |-> TrainingStatus,
                                   run |-> Len(runs)]})
  /\ UNCHANGED <<uplVars, histVars, appVars, cfgVars, alert, startReqs,
                 status, statusRun, stopReqs, dockVars, dockNetVars, backVars,
                 runtime, setVars, extVars>>

\* variant: a response older than the status on display is ignored
FetchStatusResolveNewest(p) ==
  /\ p \in BagToSet(polls)
  /\ IF p.run < statusRun
        \/ (p.run = statusRun /\ p.status.current_step < status.current_step)
     THEN UNCHANGED <<status, statusRun>>
     ELSE status' = p.status /\ statusRun' = p.run
  /\ polls' = polls (-) SetToBag({p})
  /\ UNCHANGED <<appVars, cfgVars, alert, startReqs, stopReqs, dockVars,
                 dockNetVars, backVars, runtime, uplVars, histVars, setVars,
                 extVars>>

\* fetchStatus after getTrainingStatus resolved: setStatus(result).  Nothing
\* orders the responses of overlapping polls, so the pending ones form a bag.
FetchStatusResolve(p) ==
  /\ p \in BagToSet(polls)
  /\ status' = p.status
  /\ statusRun' = p.run
  /\ polls' = polls (-) SetToBag({p})
  /\ UNCHANGED <<uplVars, histVars, appVars, cfgVars, alert, startReqs,
                 stopReqs, dockVars, dockNetVars, backVars, runtime, setVars,
                 extVars>>

\* fetchStatus after getTrainingStatus rejected: console.error only
FetchStatusFail(p) ==
  /\ p \in BagToSet(polls)
  /\ polls' = polls (-) SetToBag({p})
  /\ UNCHANGED <<uplVars, histVars, appVars, cfgVars, alert, startReqs,
                 status, statusRun, stopReqs, dockVars, dockNetVars, backVars,
                 runtime, setVars, extVars>>

\* handleStop with confirm() answered OK, up to `await stopTraining()`; the
\* Stop button is rendered only while status.running.  The response is not
\* used and a rejection is only logged.
HandleStop ==
  /\ activeTab = "progress" /\ status.running
  /\ CanIssue
  /\ stopReqs' = stopReqs + 1
  /\ UNCHANGED <<uplVars, histVars, appVars, cfgVars, alert, startReqs,
                 progVars, dockVars, dockNetVars, backVars, runtime, setVars,
                 extVars>>

\* POST /training/stop lost before it reaches the server
StopTrainingFail ==
  /\ stopReqs > 0
  /\ stopReqs' = stopReqs - 1
  /\ UNCHANGED <<uplVars, histVars, appVars, cfgVars, alert, startReqs,
                 progVars, dockVars, dockNetVars, backVars, runtime, setVars,
                 extVars>>

(* ------------------- training back end (contract) -------------------- *)
\* variant: no job-slot check
TrainingStartNoSlot(i) ==
  /\ i \in DOMAIN startReqs /\ startReqs[i].resp = "none"
  /\ IF DatasetExists(startReqs[i].payload.dataset_path)
     THEN /\ Len(runs) < MaxRuns
          /\ runs' = Append(runs, [status |-> "running"])
          /\ job' = [running |-> TRUE, step |-> 0, run |-> Len(runs) + 1]
          /\ startReqs' = [startReqs EXCEPT ![i].resp = "accepted"]
     ELSE /\ startReqs' = [startReqs EXCEPT ![i].resp = "rejected"]
          /\ UNCHANGED <<job, runs>>
  /\ UNCHANGED <<uplVars, histVars, appVars, cfgVars, alert, progVars,
                 stopReqs, dockVars, dockNetVars, files, runtime, setVars,
                 extVars>>

\* variant: a finished run is started again instead of a new one being created
TrainingStartReuse(i) ==
  /\ i \in DOMAIN startReqs /\ startReqs[i].resp = "none"
  /\ IF ~job.running /\ DatasetExists(startReqs[i].payload.dataset_path)
     THEN /\ Len(runs) < MaxRuns
          /\ IF Len(runs) = 0
             THEN /\ runs' = Append(runs, [status |-> "running"])
                  /\ job' = [running |-> TRUE, step |-> 0, run |-> 1]
             ELSE /\ runs' = [runs EXCEPT ![job.run].status = "running"]
                  /\ job' = [job EXCEPT !.running = TRUE, !.step = 0]
          /\ startReqs' = [startReqs EXCEPT ![i].resp = "accepted"]
     ELSE /\ startReqs' = [startReqs EXCEPT ![i].resp = "rejected"]
          /\ UNCHANGED <<job, runs>>
  /\ UNCHANGED <<uplVars, histVars, appVars, cfgVars, alert, progVars,
                 stopReqs, dockVars, dockNetVars, files, runtime, setVars,
                 extVars>>

\* POST /training/start: rejected while a job is running or when the dataset
\* file does not exist; otherwise a new TrainingRun is created as running
TrainingStart(i) ==
  /\ i \in DOMAIN startReqs /\ startReqs[i].resp = "none"
  /\ IF ~job.running /\ DatasetExists(startReqs[i].payload.dataset_path)
     THEN /\ Len(runs) < MaxRuns
          /\ runs' = Append(runs, [status |-> "running"])
          /\ job' = [running |-> TRUE, step |-> 0, run |-> Len(runs) + 1]
          /\ startReqs' = [startReqs EXCEPT ![i].resp = "accepted"]
     ELSE /\ startReqs' = [startReqs EXCEPT ![i].resp = "rejected"]
          /\ UNCHANGED <<job, runs>>
  /\ UNCHANGED <<uplVars, histVars, appVars, cfgVars, alert, progVars,
                 stopReqs, dockVars, dockNetVars, files, runtime, setVars,
                 extVars>>

\* a progress tick of the running job
TrainingStep ==
  /\ job.running /\ job.step < TotalSteps
  /\ job' = [job EXCEPT !.step = job.step + 1]
  /\ UNCHANGED <<uplVars, histVars, appVars, cfgVars, alert, startReqs,
                 progVars, stopReqs, dockVars, dockNetVars, runs, files,
                 runtime, setVars, extVars>>

\* the job ends: all steps done (completed) or the process failed
TrainingEnd(st) ==
  /\ job.running
  /\ st = "completed" => job.step = TotalSteps
  /\ Seal(st)
  /\ UNCHANGED <<uplVars, histVars, appVars, cfgVars, alert, startReqs,
                 progVars, stopReqs, dockVars, dockNetVars, files, runtime,
                 setVars, extVars>>

\* variant: stop clears the running flag but leaves the run unsealed
TrainingStopNoSeal(st) ==
  /\ stopReqs > 0
  /\ stopReqs' = stopReqs - 1
  /\ st \in Terminal
  /\ IF job.running
     THEN job' = [job EXCEPT !.running = FALSE] /\ UNCHANGED runs
     ELSE UNCHANGED <<job, runs>>
  /\ UNCHANGED <<uplVars, histVars, appVars, cfgVars, alert, startReqs,
                 progVars, dockVars, dockNetVars, files, runtime, setVars,
                 extVars>>

\* POST /training/stop: the active run is sealed; whether a stopped run
\* counts as completed or failed is left open by the contract
TrainingStop(st) ==
  /\ stopReqs > 0
  /\ stopReqs' = stopReqs - 1
  /\ st \in Terminal
  /\ IF job.running THEN Seal(st) ELSE st = "failed" /\ UNCHANGED <<job, runs>>
  /\ UNCHANGED <<uplVars, histVars, appVars, cfgVars, alert, startReqs,
                 progVars, dockVars, dockNetVars, files, runtime, setVars,
                 extVars>>

\* a dataset file is removed from the datasets directory outside the app
RemoveFile(d) ==
  /\ d \in files
  /\ files' = files \ {d}
  /\ UNCHANGED <<uplVars, histVars, appVars, cfgVars, alert, startReqs,
                 progVars, stopReqs, dockVars, dockNetVars, job, runs,
                 runtime, setVars, extVars>>

(* ---------------------------- DockerSetup ---------------------------- *)
\* checkStatus up to `await Promise.all(...)`, called by the 5 s interval
CheckStatus ==
  /\ activeTab = "docker"
  /\ CanIssue
  /\ checking' = TRUE
  /\ checks' = Append(checks, NewCheck)
  /\ UNCHANGED <<uplVars, histVars, appVars, cfgVars, alert, startReqs,
                 progVars, stopReqs, dockerStatus, containers,
                 selectedContainer, timers, dockerReqs, backVars, runtime,
                 setVars, extVars>>

\* checkStatus called by an expired setTimeout(checkStatus, 2000); the timer
\* is not cleared on unmount
CheckStatusTimer(i) ==
  /\ i \in DOMAIN timers
  /\ checking' = IF timers[i].live THEN TRUE ELSE checking
  /\ checks' = Append(checks, [NewCheck EXCEPT !.live = timers[i].live])
  /\ timers' = RemoveAt(timers, i)
  /\ UNCHANGED <<uplVars, histVars, appVars, cfgVars, alert, startReqs,
                 progVars, stopReqs, dockerStatus, containers,
                 selectedContainer, dockerReqs, backVars, runtime, setVars,
                 extVars>>

\* variant: onReady reports what the status says, ready or not
CheckStatusResolveTracking(i) ==
  /\ i \in DOMAIN checks
  /\ IF checks[i].live
     THEN /\ dockerStatus' = checks[i].status
          /\ containers' = checks[i].list
          /\ selectedContainer' =
               IF checks[i].status.container_running
                  /\ checks[i].status.container_name # NullName
               THEN checks[i].status.container_name
               ELSE selectedContainer
          /\ checking' = FALSE
     ELSE UNCHANGED dockVars
  /\ dockerReady' = checks[i].status.container_running
  /\ checks' = RemoveAt(checks, i)
  /\ UNCHANGED <<uplVars, histVars, activeTab, isTraining, readyCheck,
                 cfgVars, alert, startReqs, progVars, stopReqs, timers,
                 dockerReqs, backVars, runtime, setVars, extVars>>

\* checkStatus after Promise.all resolved; onReady is App.handleDockerReady
CheckStatusResolve(i) ==
  /\ i \in DOMAIN checks
  /\ IF checks[i].live
     THEN /\ dockerStatus' = checks[i].status
          /\ containers' = checks[i].list
          /\ selectedContainer' =
               IF checks[i].status.container_running
                  /\ checks[i].status.container_name # NullName
               THEN checks[i].status.container_name
               ELSE selectedContainer
          /\ checking' = FALSE
     ELSE UNCHANGED dockVars
  /\ dockerReady' = (dockerReady \/ checks[i].status.container_running)
  /\ checks' = RemoveAt(checks, i)
  /\ UNCHANGED <<uplVars, histVars, activeTab, isTraining, readyCheck,
                 cfgVars, alert, startReqs, progVars, stopReqs, timers,
                 dockerReqs, backVars, runtime, setVars, extVars>>

\* variant: the catch block only logs
CheckStatusFailLogOnly(i) ==
  /\ i \in DOMAIN checks
  /\ IF checks[i].live
     THEN checking' = FALSE /\ UNCHANGED dockerStatus
     ELSE UNCHANGED <<dockerStatus, checking>>
  /\ checks' = RemoveAt(checks, i)
  /\ UNCHANGED <<uplVars, histVars, appVars, cfgVars, alert, startReqs,
                 progVars, stopReqs, containers, selectedContainer, timers,
                 dockerReqs, backVars, runtime, setVars, extVars>>

\* checkStatus after Promise.all rejected (either fetch failed): catch block
CheckStatusFail(i) ==
  /\ i \in DOMAIN checks
  /\ IF checks[i].live
     THEN dockerStatus' = FailedStatus /\ checking' = FALSE
     ELSE UNCHANGED <<dockerStatus, checking>>
  /\ checks' = RemoveAt(checks, i)
  /\ UNCHANGED <<uplVars, histVars, appVars, cfgVars, alert, startReqs,
                 progVars, stopReqs, containers, selectedContainer, timers,
                 dockerReqs, backVars, runtime, setVars, extVars>>

\* onClick of a container row
SelectContainer(c) ==
  /\ activeTab = "docker" /\ dockerStatus # Null
  /\ c \in containers /\ selectedContainer # c.name
  /\ selectedContainer' = c.name
  /\ UNCHANGED <<uplVars, histVars, appVars, cfgVars, alert, startReqs,
                 progVars, stopReqs, dockerStatus, checking, containers,
                 dockNetVars, backVars, runtime, setVars, extVars>>

\* "Create New Container" is disabled unless Docker and the image are there;
\* a row shows Start when its container is not running
StartButton ==
  /\ activeTab = "docker" /\ dockerStatus # Null
  /\ \/ dockerStatus.docker_installed /\ dockerStatus.image_pulled
     \/ \E c \in containers : c.status # "running"

StopButton ==
  /\ activeTab = "docker" /\ dockerStatus # Null
  /\ \E c \in containers : c.status = "running"

\* startDockerContainer(): POST /docker/start without a body; the function
\* has no parameter, so the request names no container
StartDockerContainer ==
  [kind |-> "start", name |-> NullName, live |-> TRUE, resp |-> "none"]

\* the argument handleStartContainer is called with: none by "Create New
\* Container", container.name by the Start button of a row
StartButtonFor(n) ==
  /\ activeTab = "docker" /\ dockerStatus # Null
  /\ IF n = NullName
     THEN dockerStatus.docker_installed /\ dockerStatus.image_pulled
     ELSE \E c \in containers : c.name = n /\ c.status # "running"

\* handleStartContainer(n) up to `await startDockerContainer()`
HandleStartContainerArg(n) ==
  /\ StartButtonFor(n)
  /\ CanIssue
  /\ dockerReqs' = Append(dockerReqs, StartDockerContainer)
  /\ UNCHANGED <<uplVars, histVars, appVars, cfgVars, alert, startReqs,
                 progVars, stopReqs, dockVars, checks, timers, backVars,
                 runtime, setVars, extVars>>

\* variant: the handler shows the container as running at once
HandleStartContainerOptimistic ==
  /\ StartButton
  /\ CanIssue
  /\ dockerReqs' = Append(dockerReqs, StartDockerContainer)
  /\ dockerStatus' = [dockerStatus EXCEPT !.container_running = TRUE]
  /\ UNCHANGED <<uplVars, histVars, appVars, cfgVars, alert, startReqs,
                 progVars, stopReqs, checking, containers, selectedContainer,
                 checks, timers, backVars, runtime, setVars, extVars>>

\* handleStartContainer up to `await startDockerContainer()`
HandleStartContainer ==
  \E n \in {NullName, ContainerName} : HandleStartContainerArg(n)

\* handleStopContainer up to `await stopDockerContainer()`
HandleStopContainer ==
  /\ StopButton
  /\ CanIssue
  /\ dockerReqs' = Append(dockerReqs,
                          [kind |-> "stop", name |-> NullName, live |-> TRUE,
                           resp |-> "none"])
  /\ UNCHANGED <<uplVars, histVars, appVars, cfgVars, alert, startReqs,
                 progVars, stopReqs, dockVars, checks, timers, backVars,
                 runtime, setVars, extVars>>

\* variant: the follow-up check is scheduled only when none is pending
DockerReqResolveOnce(i) ==
  /\ i \in DOMAIN dockerReqs /\ dockerReqs[i].resp # "none"
  /\ dockerReqs[i].kind = "start" => dockerReqs[i].resp = "ok"
  /\ timers' = IF timers = <<>>
               THEN Append(timers, [live |-> dockerReqs[i].live])
               ELSE timers
  /\ dockerReqs' = RemoveAt(dockerReqs, i)
  /\ UNCHANGED <<uplVars, histVars, appVars, cfgVars, alert, startReqs,
                 progVars, stopReqs, dockVars, checks, backVars, runtime,
                 setVars, extVars>>

\* the awaited call resolved: setTimeout(checkStatus, 2000).
\* startDockerContainer throws on a non-OK response, stopDockerContainer
\* returns response.json() whatever the status code.
DockerReqResolve(i) ==
  /\ i \in DOMAIN dockerReqs /\ dockerReqs[i].resp # "none"
  /\ dockerReqs[i].kind = "start" => dockerReqs[i].resp = "ok"
  /\ timers' = Append(timers, [live |-> dockerReqs[i].live])
  /\ dockerReqs' = RemoveAt(dockerReqs, i)
  /\ UNCHANGED <<uplVars, histVars, appVars, cfgVars, alert, startReqs,
                 progVars, stopReqs, dockVars, checks, backVars, runtime,
                 setVars, extVars>>

\* the awaited call rejected (fetch failed, or start answered non-OK):
\* console.error only
DockerReqFail(i) ==
  /\ i \in DOMAIN dockerReqs
  /\ dockerReqs[i].kind = "stop" => dockerReqs[i].resp = "none"
  /\ dockerReqs' = RemoveAt(dockerReqs, i)
  /\ UNCHANGED <<uplVars, histVars, appVars, cfgVars, alert, startReqs,
                 progVars, stopReqs, dockVars, checks, timers, backVars,
                 runtime, setVars, extVars>>

(* --------------------- Docker back end (contract) -------------------- *)
\* POST /docker/start: pulls the image if absent, then creates/starts the
\* container; answers non-OK when the runtime is not there
DockerStart(i) ==
  /\ i \in DOMAIN dockerReqs
  /\ dockerReqs[i].kind = "start" /\ dockerReqs[i].resp = "none"
  /\ IF runtime.installed
     THEN /\ runtime' = [installed |-> TRUE, image |-> TRUE,
                         container |-> "running"]
          /\ dockerReqs' = [dockerReqs EXCEPT ![i].resp = "ok"]
     ELSE /\ dockerReqs' = [dockerReqs EXCEPT ![i].resp = "error"]
          /\ UNCHANGED runtime
  /\ UNCHANGED <<uplVars, histVars, appVars, cfgVars, alert, startReqs,
                 progVars, stopReqs, dockVars, checks, timers, backVars,
                 setVars, extVars>>

\* POST /docker/stop
DockerStop(i) ==
  /\ i \in DOMAIN dockerReqs
  /\ dockerReqs[i].kind = "stop" /\ dockerReqs[i].resp = "none"
  /\ IF runtime.container = "running"
     THEN /\ runtime' = [runtime EXCEPT !.container = "stopped"]
          /\ dockerReqs' = [dockerReqs EXCEPT ![i].resp = "ok"]
     ELSE /\ dockerReqs' = [dockerReqs EXCEPT ![i].resp = "error"]
          /\ UNCHANGED runtime
  /\ UNCHANGED <<uplVars, histVars, appVars, cfgVars, alert, startReqs,
                 progVars, stopReqs, dockVars, checks, timers, backVars,
                 setVars, extVars>>

(* --------------------- DatasetUpload, useDatasets -------------------- *)
\* useDatasets mount effect: loadDatasets settled (its loading and error
\* states are not used by DatasetUpload)
UseDatasetsLoad(ok) ==
  /\ activeTab = "upload" /\ upLoad
  /\ upLoad' = FALSE
  /\ upDatasets' = IF ok THEN files ELSE upDatasets
  /\ UNCHANGED <<appVars, cfgVars, alert, startReqs, progVars, stopReqs,
                 dockVars, dockNetVars, backVars, runtime, histVars,
                 uploading, uploadedFile, uploadReqs, setVars, extVars>>

\* handleFileUpload up to `await uploadDataset(file)`; nothing disables the
\* drop area while an upload is under way
HandleFileUpload(f) ==
  /\ activeTab = "upload"
  /\ CanIssue
  /\ uploading' = TRUE
  /\ uploadReqs' = Append(uploadReqs,
                          [file |-> f, live |-> TRUE, phase |-> "sent"])
  /\ UNCHANGED <<appVars, cfgVars, alert, startReqs, progVars, stopReqs,
                 dockVars, dockNetVars, backVars, runtime, histVars,
                 uploadedFile, upDatasets, upLoad, setVars, extVars>>

\* POST /datasets/upload: the file is stored under its name
UploadStore(i) ==
  /\ i \in DOMAIN uploadReqs /\ uploadReqs[i].phase = "sent"
  /\ files' = files \cup {uploadReqs[i].file}
  /\ uploadReqs' = [uploadReqs EXCEPT ![i].phase = "stored"]
  /\ UNCHANGED <<appVars, cfgVars, alert, startReqs, progVars, stopReqs,
                 dockVars, dockNetVars, job, runs, runtime, histVars,
                 uploading, uploadedFile, upDatasets, upLoad, setVars,
                 extVars>>

\* POST /datasets/upload answered with an error status and a JSON body that
\* describes the error; nothing is stored
UploadRefuse(i) ==
  /\ i \in DOMAIN uploadReqs /\ uploadReqs[i].phase = "sent"
  /\ uploadReqs' = [uploadReqs EXCEPT ![i].phase = "refused"]
  /\ UNCHANGED <<appVars, cfgVars, alert, startReqs, progVars, stopReqs,
                 dockVars, dockNetVars, backVars, runtime, histVars,
                 uploading, uploadedFile, upDatasets, upLoad, setVars,
                 extVars>>

\* handleFileUpload after uploadDataset resolved: uploadDataset returns
\* response.json() whatever the status code, so setUploadedFile and then
\* `await refetch()` follow an error response too (its body has no filename)
UploadResolve(i) ==
  /\ i \in DOMAIN uploadReqs /\ uploadReqs[i].phase \in {"stored", "refused"}
  /\ IF uploadReqs[i].live
     THEN /\ uploadedFile' = IF uploadReqs[i].phase = "stored"
                             THEN uploadReqs[i].file ELSE NullName
          /\ uploadReqs' = [uploadReqs EXCEPT ![i].phase = "refetch"]
     ELSE /\ uploadReqs' = RemoveAt(uploadReqs, i)
          /\ UNCHANGED uploadedFile
  /\ UNCHANGED <<appVars, cfgVars, alert, startReqs, progVars, stopReqs,
                 dockVars, dockNetVars, backVars, runtime, histVars,
                 uploading, upDatasets, upLoad, setVars, extVars>>

\* handleFileUpload after refetch() settled (loadDatasets catches its own
\* errors): setTimeout(() => setUploadedFile(null), 3000), then the finally
\* block
RefetchSettle(i, ok) ==
  /\ i \in DOMAIN uploadReqs /\ uploadReqs[i].phase = "refetch"
  /\ upDatasets' = IF ok THEN files ELSE upDatasets
  /\ uploading' = FALSE
  /\ uploadReqs' = [uploadReqs EXCEPT ![i].phase = "timer"]
  /\ UNCHANGED <<appVars, cfgVars, alert, startReqs, progVars, stopReqs,
                 dockVars, dockNetVars, backVars, runtime, histVars,
                 uploadedFile, upLoad, setVars, extVars>>

\* the 3 s timer expires
UploadedFileTimer(i) ==
  /\ i \in DOMAIN uploadReqs /\ uploadReqs[i].phase = "timer"
  /\ uploadedFile' = NullName
  /\ uploadReqs' = RemoveAt(uploadReqs, i)
  /\ UNCHANGED <<appVars, cfgVars, alert, startReqs, progVars, stopReqs,
                 dockVars, dockNetVars, backVars, runtime, histVars,
                 uploading, upDatasets, upLoad, setVars, extVars>>

\* variant: a failed upload is sent again
UploadFailRetry(i) ==
  /\ i \in DOMAIN uploadReqs /\ PendingUpload(uploadReqs[i])
  /\ alert' = "Failed to upload dataset"
  /\ uploadReqs' = Append(RemoveAt(uploadReqs, i),
                          [uploadReqs[i] EXCEPT !.phase = "sent"])
  /\ UNCHANGED <<appVars, cfgVars, startReqs, progVars, stopReqs, dockVars,
                 dockNetVars, backVars, runtime, histVars, uploading,
                 uploadedFile, upDatasets, upLoad, setVars, extVars>>

\* handleFileUpload after uploadDataset rejected: alert, then the finally
\* block
UploadFail(i) ==
  /\ i \in DOMAIN uploadReqs /\ PendingUpload(uploadReqs[i])
  /\ alert' = "Failed to upload dataset"
  /\ uploading' = IF uploadReqs[i].live THEN FALSE ELSE uploading
  /\ uploadReqs' = RemoveAt(uploadReqs, i)
  /\ UNCHANGED <<appVars, cfgVars, startReqs, progVars, stopReqs,
                 dockVars, dockNetVars, backVars, runtime, histVars,
                 uploadedFile, upDatasets, upLoad, setVars, extVars>>

(* ------------------ TrainingHistory, useTrainingRun ------------------ *)
\* run ids a caller can hand to useTrainingRun; the last one is never known
RunIds == 1..(MaxRuns + 1)

\* GET /training/history/{id}: NotFound when the id is unknown
HistoryGet(id) ==
  IF id \in DOMAIN runs
  THEN [found |-> TRUE, run |-> [id |-> id, status |-> runs[id].status],
        metrics |-> <<>>]
  ELSE [found |-> FALSE, detail |-> "Run not found"]

\* variant: the response body is returned whatever the status code
GetTrainingRunNoCheck(resp) ==
  [ok |-> TRUE,
   value |-> IF resp.found THEN [run |-> resp.run, metrics |-> resp.metrics]
             ELSE [detail |-> resp.detail]]

\* getTrainingRun, given the server's response: throws unless response.ok
GetTrainingRun(resp) ==
  IF resp.found
  THEN [ok |-> TRUE, value |-> [run |-> resp.run, metrics |-> resp.metrics]]
  ELSE [ok |-> FALSE, error |-> "Failed to fetch training run"]

\* setSelectedRunId(id) followed by the effect of useTrainingRun on [runId]:
\* loadRun(id) up to `await getTrainingRun(id)`, or setRunDetails(null)
SetSelectedRunId(id) ==
  /\ id # selectedRunId
  /\ selectedRunId' = id
  /\ IF id # 0
     THEN /\ CanIssue
          /\ rdLoading' = TRUE
          /\ runLoads' = Append(runLoads, [id |-> id, resp |-> HistoryGet(id)])
          /\ UNCHANGED runDetails
     ELSE /\ runDetails' = Null
          /\ UNCHANGED <<rdLoading, runLoads>>
  /\ UNCHANGED <<appVars, cfgVars, alert, startReqs, progVars, stopReqs,
                 dockVars, dockNetVars, backVars, runtime, uplVars, rdError,
                 setVars, extVars>>

\* loadRun after getTrainingRun settled with the server's response
LoadRunSettle(i) ==
  /\ i \in DOMAIN runLoads
  /\ LET r == GetTrainingRun(runLoads[i].resp)
     IN  IF r.ok
         THEN runDetails' = r.value /\ rdError' = NullName
         ELSE rdError' = r.error /\ UNCHANGED runDetails
  /\ rdLoading' = FALSE
  /\ runLoads' = RemoveAt(runLoads, i)
  /\ UNCHANGED <<appVars, cfgVars, alert, startReqs, progVars, stopReqs,
                 dockVars, dockNetVars, backVars, runtime, uplVars,
                 selectedRunId, setVars, extVars>>

\* loadRun after fetch itself rejected
LoadRunFail(i) ==
  /\ i \in DOMAIN runLoads
  /\ rdError' = "Failed to fetch"
  /\ rdLoading' = FALSE
  /\ runLoads' = RemoveAt(runLoads, i)
  /\ UNCHANGED <<appVars, cfgVars, alert, startReqs, progVars, stopReqs,
                 dockVars, dockNetVars, backVars, runtime, uplVars,
                 selectedRunId, runDetails, setVars, extVars>>

(* --------------------------- ModelTesting ---------------------------- *)
\* answers GET /models/list can give: the names of the trained models
TrainedModels == {<<>>, <<"m">>, <<"m", "n">>}

\* EXAMPLE_PROMPTS
ExamplePrompts ==
  {"Write a short poem about AI.",
   "Explain quantum computing in simple terms.",
   "What is the capital of France?", "def fibonacci(n):",
   "Once upon a time,"}

\* what the prompt box can hold: nothing, a blank, an example
Prompts == {"", " "} \cup ExamplePrompts

\* prompt.trim()
Trim(p) == IF p = " " THEN "" ELSE p

\* bodies POST /models/{name}/inference can answer with
InferenceResponses ==
  [success : BOOLEAN, result : {"", "text"}, error : {"", "No such model"}]

\* the other variables when only ModelTesting acts
TestingFrame ==
  UNCHANGED <<appVars, cfgVars, alert, startReqs, progVars, stopReqs,
              dockVars, dockNetVars, backVars, runtime, uplVars, histVars,
              setVars, resVars, maskVars, storedToken>>

\* useModels mount effect: listModels() resolved with list ms; the render
\* that follows selects the first model when none is selected
UseModelsLoad(ms) ==
  /\ mtLoad
  /\ mtLoad' = FALSE
  /\ models' = ms
  /\ selectedModel' = IF Len(ms) > 0 /\ selectedModel = ""
                      THEN ms[1] ELSE selectedModel
  /\ UNCHANGED <<prompt, result, loading, error, inferReqs>>
  /\ TestingFrame

\* useModels mount effect: listModels() rejected
UseModelsFail ==
  /\ mtLoad
  /\ mtLoad' = FALSE
  /\ UNCHANGED <<models, selectedModel, prompt, result, loading, error,
                 inferReqs>>
  /\ TestingFrame

\* model <select> onChange; with no model the form is not rendered
SetSelectedModel(k) ==
  /\ k \in DOMAIN models /\ selectedModel # models[k]
  /\ selectedModel' = models[k]
  /\ UNCHANGED <<models, mtLoad, prompt, result, loading, error, inferReqs>>
  /\ TestingFrame

\* prompt <textarea> onChange and the example buttons
SetPrompt(p) ==
  /\ Len(models) > 0 /\ prompt # p
  /\ prompt' = p
  /\ UNCHANGED <<models, mtLoad, selectedModel, result, loading, error,
                 inferReqs>>
  /\ TestingFrame

\* variant: the previous output is left on screen while the next is made
RunInferenceKeep ==
  /\ Len(models) > 0 /\ ~loading /\ Trim(prompt) # ""
  /\ IF selectedModel = "" \/ Trim(prompt) = ""
     THEN /\ error' = "Please select a model and enter a prompt"
          /\ UNCHANGED <<result, loading, inferReqs>>
     ELSE /\ CanIssue
          /\ loading' = TRUE /\ error' = ""
          /\ inferReqs' = Append(inferReqs, [model |-> selectedModel,
                                               prompt |-> prompt])
          /\ UNCHANGED result
  /\ UNCHANGED <<models, mtLoad, selectedModel, prompt>>
  /\ TestingFrame

\* the Run Inference button (disabled while loading or with a blank
\* prompt): runInference up to `await fetch(...)`
RunInference ==
  /\ Len(models) > 0 /\ ~loading /\ Trim(prompt) # ""
  /\ IF selectedModel = "" \/ Trim(prompt) = ""
     THEN /\ error' = "Please select a model and enter a prompt"
          /\ UNCHANGED <<result, loading, inferReqs>>
     ELSE /\ CanIssue
          /\ loading' = TRUE /\ error' = "" /\ result' = ""
          /\ inferReqs' = Append(inferReqs, [model |-> selectedModel,
                                               prompt |-> prompt])
  /\ UNCHANGED <<models, mtLoad, selectedModel, prompt>>
  /\ TestingFrame

\* runInference after response.json() resolved with body data
InferenceSettle(i, data) ==
  /\ i \in DOMAIN inferReqs
  /\ IF data.success
     THEN result' = data.result /\ UNCHANGED error
     ELSE /\ error' = IF data.error # "" THEN data.error
                      ELSE "Inference failed"
          /\ UNCHANGED result
  /\ loading' = FALSE
  /\ inferReqs' = RemoveAt(inferReqs, i)
  /\ UNCHANGED <<models, mtLoad, selectedModel, prompt>>
  /\ TestingFrame

\* runInference after fetch or response.json() rejected
InferenceFail(i) ==
  /\ i \in DOMAIN inferReqs
  /\ error' = "Failed to fetch"
  /\ loading' = FALSE
  /\ inferReqs' = RemoveAt(inferReqs, i)
  /\ UNCHANGED <<models, mtLoad, selectedModel, prompt, result>>
  /\ TestingFrame

(* ------------------------------ Settings ----------------------------- *)
\* tokens typed into the Access Token field
Tokens == {"hf_a", "hf_b"}

\* POST and DELETE /settings/hf-token as the server may answer them
TokenAnswers == {"ok", "error"}

SettingsFrame ==
  UNCHANGED <<appVars, cfgVars, alert, startReqs, progVars, stopReqs,
              dockVars, dockNetVars, backVars, runtime, uplVars, histVars,
              mtVars, resVars, maskVars>>

\* loadToken resolved: GET /settings/hf-token gave the stored token
LoadTokenSettle ==
  /\ tkLoad
  /\ tkLoad' = FALSE
  /\ IF storedToken # ""
     THEN savedToken' = storedToken /\ hfToken' = storedToken
     ELSE UNCHANGED <<savedToken, hfToken>>
  /\ UNCHANGED <<saving, message, tokenReqs, storedToken>>
  /\ SettingsFrame

\* loadToken after fetch or response.json() rejected: console.error only
LoadTokenFail ==
  /\ tkLoad
  /\ tkLoad' = FALSE
  /\ UNCHANGED <<hfToken, savedToken, saving, message, tokenReqs, storedToken>>
  /\ SettingsFrame

\* onChange of the Access Token input
SetHfToken(t) ==
  /\ activeTab = "settings"
  /\ t # hfToken
  /\ hfToken' = t
  /\ UNCHANGED <<savedToken, saving, message, tkLoad, tokenReqs, storedToken>>
  /\ SettingsFrame

\* saveToken up to its await; the button is disabled={saving || !hfToken}
SaveToken ==
  /\ activeTab = "settings"
  /\ ~saving /\ hfToken # ""
  /\ CanIssue
  /\ saving' = TRUE
  /\ message' = Null
  /\ tokenReqs' = Append(tokenReqs, [kind |-> "save", token |-> hfToken,
                                     live |-> TRUE, resp |-> "none"])
  /\ UNCHANGED <<hfToken, savedToken, tkLoad, storedToken>>
  /\ SettingsFrame

\* clearToken up to its await; the button is rendered when savedToken is set
\* and is disabled={saving}
ClearToken ==
  /\ activeTab = "settings"
  /\ ~saving /\ savedToken # ""
  /\ CanIssue
  /\ saving' = TRUE
  /\ message' = Null
  /\ tokenReqs' = Append(tokenReqs, [kind |-> "clear", token |-> "",
                                     live |-> TRUE, resp |-> "none"])
  /\ UNCHANGED <<hfToken, savedToken, tkLoad, storedToken>>
  /\ SettingsFrame

\* the server answers POST or DELETE /settings/hf-token
TokenStore(i, answer) ==
  /\ i \in DOMAIN tokenReqs
  /\ tokenReqs[i].resp = "none"
  /\ tokenReqs' = [tokenReqs EXCEPT ![i].resp = answer]
  /\ storedToken' = IF answer = "ok" THEN tokenReqs[i].token ELSE storedToken
  /\ UNCHANGED <<hfToken, savedToken, saving, message, tkLoad>>
  /\ SettingsFrame

SuccessMessage(kind) ==
  [type |-> "success",
   text |-> IF kind = "save" THEN "Token saved successfully!"
            ELSE "Token cleared successfully!"]
FailedMessage(kind) ==
  [type |-> "error",
   text |-> IF kind = "save" THEN "Failed to save token"
            ELSE "Failed to clear token"]
ErrorMessage(kind) ==
  [type |-> "error",
   text |-> IF kind = "save" THEN "Error saving token"
            ELSE "Error clearing token"]

\* variant: the token counts as saved whatever the response
TokenSettleAlways(i) ==
  /\ i \in DOMAIN tokenReqs
  /\ tokenReqs[i].resp # "none"
  /\ tokenReqs' = RemoveAt(tokenReqs, i)
  /\ IF tokenReqs[i].live
     THEN /\ saving' = FALSE
          /\ savedToken' = tokenReqs[i].token
          /\ hfToken' = IF tokenReqs[i].kind = "clear" THEN "" ELSE hfToken
          /\ message' = IF tokenReqs[i].resp = "ok"
                        THEN SuccessMessage(tokenReqs[i].kind)
                        ELSE FailedMessage(tokenReqs[i].kind)
     ELSE UNCHANGED <<hfToken, savedToken, saving, message>>
  /\ UNCHANGED <<tkLoad, storedToken>>
  /\ SettingsFrame

\* saveToken and clearToken after their await: response.ok decides; hfToken
\* in saveToken is the value the closure sent
TokenSettle(i) ==
  /\ i \in DOMAIN tokenReqs
  /\ tokenReqs[i].resp # "none"
  /\ tokenReqs' = RemoveAt(tokenReqs, i)
  /\ IF tokenReqs[i].live
     THEN /\ saving' = FALSE
          /\ IF tokenReqs[i].resp = "ok"
             THEN /\ savedToken' = tokenReqs[i].token
                  /\ hfToken' = IF tokenReqs[i].kind = "clear" THEN ""
                                ELSE hfToken
                  /\ message' = SuccessMessage(tokenReqs[i].kind)
             ELSE /\ message' = FailedMessage(tokenReqs[i].kind)
                  /\ UNCHANGED <<hfToken, savedToken>>
     ELSE UNCHANGED <<hfToken, savedToken, saving, message>>
  /\ UNCHANGED <<tkLoad, storedToken>>
  /\ SettingsFrame

\* saveToken and clearToken after fetch rejected: the request, or the
\* response to it, was lost
TokenFail(i) ==
  /\ i \in DOMAIN tokenReqs
  /\ tokenReqs' = RemoveAt(tokenReqs, i)
  /\ IF tokenReqs[i].live
     THEN /\ saving' = FALSE
          /\ message' = ErrorMessage(tokenReqs[i].kind)
     ELSE UNCHANGED <<saving, message>>
  /\ UNCHANGED <<hfToken, savedToken, tkLoad, storedToken>>
  /\ SettingsFrame

(* ------------------------------ maskToken ---------------------------- *)
\* the characters a token is made of
TokenChars == {"a", "b"}
\* the character that hides one: it stands for the bullet U+2022 of the
\* source, which no token contains
Bullet == "*"

\* c.repeat(n)
Repeat(c, n) == [k \in 1..n |-> c]

\* variant: only tokens shorter than 8 are masked whole
maskTokenBelow(t) ==
  IF t = <<>> THEN <<>>
  ELSE IF Len(t) < 8 THEN Repeat(Bullet, Len(t))
  ELSE SubSeq(t, 1, 4) \o Repeat(Bullet, Len(t) - 8)
         \o SubSeq(t, Len(t) - 3, Len(t))

\* maskToken; substring(0, 4) is the first four characters and
\* substring(length - 4) the last four
maskToken(t) ==
  IF t = <<>> THEN <<>>
  ELSE IF Len(t) <= 8 THEN Repeat(Bullet, Len(t))
  ELSE SubSeq(t, 1, 4) \o Repeat(Bullet, Len(t) - 8)
         \o SubSeq(t, Len(t) - 3, Len(t))

\* the render of "Token saved: {maskToken(savedToken)}"
ShowMasked ==
  /\ masked' = maskToken(token)
  /\ UNCHANGED token
  /\ UNCHANGED <<appVars, cfgVars, alert, startReqs, progVars, stopReqs,
                 dockVars, dockNetVars, backVars, runtime, uplVars, histVars,
                 setVars, mtVars, resVars, storedToken>>

(* ---------------------------- useResources --------------------------- *)
\* the number of samples setHistory keeps
HistoryCap == 30

\* prev.slice(-k)
SliceLast(s, k) ==
  SubSeq(s, (IF Len(s) > k THEN Len(s) - k + 1 ELSE 1), Len(s))

ResourcesFrame ==
  UNCHANGED <<appVars, cfgVars, alert, startReqs, progVars, stopReqs,
              dockVars, dockNetVars, backVars, runtime, uplVars, histVars,
              setVars, mtVars, maskVars, storedToken>>

\* fetchResources, called on mount and by every tick of setInterval: the
\* request is sent whether or not an earlier one is still pending
FetchResources ==
  /\ CanIssue
  /\ sampleNo < HistoryCap + MaxFetches
  /\ sampleNo' = sampleNo + 1
  /\ resPolls' = Append(resPolls, [sample |-> sampleNo + 1])
  /\ UNCHANGED <<resources, history, resError, arrived>>
  /\ ResourcesFrame

\* variant: the history keeps one more of the earlier samples
FetchResourcesSettleWide(i) ==
  /\ i \in DOMAIN resPolls
  /\ resources' = [sample |-> resPolls[i].sample]
  /\ resError' = NullName
  /\ history' = Append(SliceLast(history, HistoryCap), resPolls[i].sample)
  /\ arrived' = Append(arrived, resPolls[i].sample)
  /\ resPolls' = RemoveAt(resPolls, i)
  /\ UNCHANGED sampleNo
  /\ ResourcesFrame

\* fetchResources after an ok response: setResources(data), setError(null),
\* setHistory(prev => [...prev.slice(-29), data])
FetchResourcesSettle(i) ==
  /\ i \in DOMAIN resPolls
  /\ resources' = [sample |-> resPolls[i].sample]
  /\ resError' = NullName
  /\ history' = Append(SliceLast(history, HistoryCap - 1), resPolls[i].sample)
  /\ arrived' = Append(arrived, resPolls[i].sample)
  /\ resPolls' = RemoveAt(resPolls, i)
  /\ UNCHANGED sampleNo
  /\ ResourcesFrame

\* fetchResources after fetch rejected or the response was not ok
FetchResourcesFail(i) ==
  /\ i \in DOMAIN resPolls
  /\ resError' = "Failed to fetch resources"
  /\ resPolls' = RemoveAt(resPolls, i)
  /\ UNCHANGED <<resources, history, sampleNo, arrived>>
  /\ ResourcesFrame

(* ------------------------------- Next -------------------------------- *)
\* App itself, and the status check DockerSetup makes when it is mounted
AppNext ==
  \/ \E t \in Tabs : SetActiveTab(t)
  \/ CheckIfReadyResolve
  \/ CheckIfReadyFail
  \/ \E i \in 1..MaxInFlight : CheckStatusResolve(i)
  \/ \E i \in 1..MaxInFlight : CheckStatusFail(i)

\* TrainingConfig and POST /training/start
ConfigNext ==
  \/ LoadDatasets
  \/ LoadDatasetsFail
  \/ \E d \in DatasetNames : SelectDataset(d)
  \/ \E o \in OutputNames : SetOutputDir(o)
  \/ HandleSubmit
  \/ \E i \in 1..MaxInFlight : StartResolve(i)
  \/ \E i \in 1..MaxInFlight : StartFail(i)
  \/ \E i \in 1..MaxInFlight : TrainingStart(i)
  \/ \E d \in DatasetNames : RemoveFile(d)

\* the model list of TrainingConfig
ModelsNext ==
  \/ \E ms \in ModelLists : LoadModels(ms)
  \/ LoadModelsFail
  \/ \E k \in 1..Len(DefaultModels) : SelectModel(k)

\* the training process
JobNext ==
  \/ TrainingStep
  \/ \E st \in Terminal : TrainingEnd(st)

\* TrainingProgress polling GET /training/status
PollNext ==
  \/ FetchStatus
  \/ \E p \in BagToSet(polls) : FetchStatusResolve(p)
  \/ \E p \in BagToSet(polls) : FetchStatusFail(p)

\* the Stop button and POST /training/stop
StopActNext ==
  \/ HandleStop
  \/ StopTrainingFail
  \/ \E st \in Terminal : TrainingStop(st)

\* TrainingConfig, TrainingProgress and the training job controller
TrainingNext == ConfigNext \/ JobNext \/ PollNext \/ StopActNext

\* DockerSetup and the Docker lifecycle controller
DockerNext ==
  \/ CheckStatus
  \/ \E i \in 1..MaxInFlight : CheckStatusTimer(i)
  \/ \E c \in ContainersOf([installed |-> TRUE, image |-> TRUE,
                            container |-> "stopped"])
          \cup ContainersOf([installed |-> TRUE, image |-> TRUE,
                             container |-> "running"]) : SelectContainer(c)
  \/ HandleStartContainer
  \/ HandleStopContainer
  \/ \E i \in 1..MaxInFlight : DockerReqResolve(i)
  \/ \E i \in 1..MaxInFlight : DockerReqFail(i)
  \/ \E i \in 1..MaxInFlight : DockerStart(i)
  \/ \E i \in 1..MaxInFlight : DockerStop(i)

\* DatasetUpload and POST /datasets/upload
UploadNext ==
  \/ \E ok \in BOOLEAN : UseDatasetsLoad(ok)
  \/ \E f \in DatasetNames : HandleFileUpload(f)
  \/ \E i \in 1..MaxInFlight : UploadStore(i)
  \/ \E i \in 1..MaxInFlight : UploadRefuse(i)
  \/ \E i \in 1..MaxInFlight : UploadResolve(i)
  \/ \E i \in 1..MaxInFlight, ok \in BOOLEAN : RefetchSettle(i, ok)
  \/ \E i \in 1..MaxInFlight : UploadedFileTimer(i)
  \/ \E i \in 1..MaxInFlight : UploadFail(i)

\* TrainingHistory with useTrainingRun
HistoryNext ==
  \/ \E id \in {0} \cup RunIds : SetSelectedRunId(id)
  \/ \E i \in 1..MaxInFlight : LoadRunSettle(i)
  \/ \E i \in 1..MaxInFlight : LoadRunFail(i)

\* ModelTesting with useModels
TestingNext ==
  \/ \E ms \in TrainedModels : UseModelsLoad(ms)
  \/ UseModelsFail
  \/ \E k \in 1..2 : SetSelectedModel(k)
  \/ \E p \in Prompts : SetPrompt(p)
  \/ RunInference
  \/ \E i \in 1..MaxInFlight, data \in InferenceResponses :
       InferenceSettle(i, data)
  \/ \E i \in 1..MaxInFlight : InferenceFail(i)

\* Settings
SettingsNext ==
  \/ LoadTokenSettle
  \/ LoadTokenFail
  \/ \E t \in {""} \cup Tokens : SetHfToken(t)
  \/ SaveToken
  \/ ClearToken
  \/ \E i \in 1..MaxInFlight, answer \in TokenAnswers : TokenStore(i, answer)
  \/ \E i \in 1..MaxInFlight : TokenSettle(i)
  \/ \E i \in 1..MaxInFlight : TokenFail(i)

\* useResources
ResourcesNext ==
  \/ FetchResources
  \/ \E i \in 1..MaxInFlight : FetchResourcesSettle(i)
  \/ \E i \in 1..MaxInFlight : FetchResourcesFail(i)

Next ==
  \/ AppNext \/ TrainingNext \/ ModelsNext
  \/ DockerNext \/ UploadNext \/ HistoryNext
  \/ TestingNext \/ ResourcesNext \/ SettingsNext
  \/ ShowMasked

\* the whole application
Spec == Init /\ [][Next]_vars

\* the training workflow: the Docker tab only performs its mount-time check
TrainingSpec == Init /\ [][AppNext \/ TrainingNext]_vars

\* starting jobs and letting them run to their end: the Progress tab is
\* mounted by onTrainingStart but its polling is not followed
StartSpec == Init /\ [][AppNext \/ ConfigNext \/ JobNext]_vars

\* the session up to and including its first accepted start: the Progress
\* tab polls, and the job that start creates is not followed further
FirstStartSpec == Init /\ [][AppNext \/ ConfigNext \/ PollNext]_vars

\* the Docker workflow: no training is configured or started
DockerSpec == Init /\ [][AppNext \/ DockerNext]_vars

\* a session from the moment an accepted start has put the user on the
\* Progress tab with its job running
StopInit ==
  /\ activeTab = "progress" /\ isTraining = TRUE /\ dockerReady = TRUE
  /\ readyCheck = "done"
  /\ config = DefaultConfig /\ starting = FALSE /\ datasets = {}
  /\ dsLoad = FALSE /\ alert = ""
  /\ startReqs = <<>>
  /\ status = InitialStatus /\ statusRun = 0 /\ polls = EmptyBag
  /\ stopReqs = 0
  /\ runtime = [installed |-> TRUE, image |-> TRUE, container |-> "running"]
  /\ dockerStatus = Null /\ checking = TRUE /\ containers = {}
  /\ selectedContainer = NullName
  /\ checks = <<>> /\ timers = <<>> /\ dockerReqs = <<>>
  /\ job = [running |-> TRUE, step |-> 0, run |-> 1]
  /\ runs = <<[status |-> "running"]>>
  /\ files = DatasetNames
  /\ availableModels = DefaultModels /\ mdLoad = FALSE
  /\ UploadInit
  /\ HistoryHookInit
  /\ SettingsInit
  /\ ExtInit

StopNext == PollNext \/ StopActNext \/ JobNext

\* the server answers a request that reaches it, and the training process
\* keeps running until it ends
StopSpec ==
  /\ StopInit /\ [][StopNext]_vars
  /\ WF_vars(\E st \in Terminal : TrainingStop(st))
  /\ WF_vars(TrainingStep)
  /\ WF_vars(TrainingEnd("completed"))

\* every request a user action sends: starting a job, uploading a dataset,
\* starting and stopping the container
RequestInit ==
  Init /\ runtime.container = "running" /\ files = DatasetNames

RequestNext ==
  \/ LoadDatasets
  \/ \E d \in DatasetNames : SelectDataset(d)
  \/ \E o \in OutputNames : SetOutputDir(o)
  \/ HandleSubmit
  \/ \E i \in 1..MaxInFlight : StartResolve(i)
  \/ \E i \in 1..MaxInFlight : StartFail(i)
  \/ \E i \in 1..MaxInFlight : TrainingStart(i)
  \/ CheckStatus
  \/ \E i \in 1..MaxInFlight : CheckStatusTimer(i)
  \/ HandleStartContainer
  \/ HandleStopContainer
  \/ \E i \in 1..MaxInFlight : DockerReqResolve(i)
  \/ \E i \in 1..MaxInFlight : DockerReqFail(i)
  \/ \E i \in 1..MaxInFlight : DockerStart(i)
  \/ \E i \in 1..MaxInFlight : DockerStop(i)
  \/ \E f \in DatasetNames : HandleFileUpload(f)
  \/ \E i \in 1..MaxInFlight : UploadStore(i)
  \/ \E i \in 1..MaxInFlight : UploadResolve(i)
  \/ \E i \in 1..MaxInFlight, ok \in BOOLEAN : RefetchSettle(i, ok)
  \/ \E i \in 1..MaxInFlight : UploadedFileTimer(i)
  \/ \E i \in 1..MaxInFlight : UploadFail(i)

\* a session with the container up and the dataset on disk, in which the
\* user starts jobs, uploads datasets and starts and stops the container
RequestSpec == RequestInit /\ [][AppNext \/ RequestNext]_vars

\* histories the store can hold once every job has ended
Histories ==
  UNION {[1..n -> [status : Terminal]] : n \in 0..MaxRuns}

\* TrainingHistory browsing a store of ended runs
HistoryInit ==
  /\ activeTab = "docker" /\ isTraining = FALSE /\ dockerReady = FALSE
  /\ readyCheck = "pending"
  /\ config = DefaultConfig /\ starting = FALSE /\ datasets = {}
  /\ dsLoad = FALSE /\ alert = ""
  /\ startReqs = <<>>
  /\ status = InitialStatus /\ statusRun = 0 /\ polls = EmptyBag
  /\ stopReqs = 0
  /\ runtime = [installed |-> TRUE, image |-> TRUE, container |-> "running"]
  /\ dockerStatus = Null /\ checking = TRUE /\ containers = {}
  /\ selectedContainer = NullName
  /\ checks = <<>> /\ timers = <<>> /\ dockerReqs = <<>>
  /\ runs \in Histories
  /\ job = [running |-> FALSE, step |-> 0, run |-> Len(runs)]
  /\ files = DatasetNames
  /\ availableModels = DefaultModels /\ mdLoad = FALSE
  /\ UploadInit
  /\ HistoryHookInit
  /\ SettingsInit
  /\ ExtInit

HistorySpec == HistoryInit /\ [][HistoryNext]_vars

\* a session from the moment the user, on the Training tab with Docker
\* ready, has chosen a dataset and an output name and not yet started a job
ProgressInit ==
  /\ activeTab = "train" /\ isTraining = FALSE /\ dockerReady = TRUE
  /\ readyCheck = "done"
  /\ \E d \in DatasetNames, o \in OutputNames :
       config = [DefaultConfig EXCEPT !.dataset_path = DatasetPath(d),
                                      !.output_dir = o]
  /\ starting = FALSE /\ datasets = DatasetNames
  /\ dsLoad = FALSE /\ alert = ""
  /\ startReqs = <<>>
  /\ status = InitialStatus /\ statusRun = 0 /\ polls = EmptyBag
  /\ stopReqs = 0
  /\ runtime = [installed |-> TRUE, image |-> TRUE, container |-> "running"]
  /\ dockerStatus = Null /\ checking = TRUE /\ containers = {}
  /\ selectedContainer = NullName
  /\ checks = <<>> /\ timers = <<>> /\ dockerReqs = <<>>
  /\ job = [running |-> FALSE, step |-> 0, run |-> 0]
  /\ runs = <<>>
  /\ files = DatasetNames
  /\ availableModels = DefaultModels /\ mdLoad = FALSE
  /\ UploadInit
  /\ HistoryHookInit
  /\ SettingsInit
  /\ ExtInit

ProgressNext ==
  \/ \E t \in GatedTabs : SetActiveTab(t)
  \/ LoadDatasets
  \/ \E d \in DatasetNames : SelectDataset(d)
  \/ \E o \in OutputNames : SetOutputDir(o)
  \/ HandleSubmit
  \/ \E i \in 1..MaxInFlight : StartResolve(i)
  \/ \E i \in 1..MaxInFlight : StartFail(i)
  \/ \E i \in 1..MaxInFlight : TrainingStart(i)
  \/ PollNext
  \/ JobNext

\* starting jobs from the form, watching them on the Progress tab and
\* letting them run to their end
ProgressSpec == ProgressInit /\ [][ProgressNext]_vars

FormNext ==
  \/ \E t \in GatedTabs : SetActiveTab(t)
  \/ LoadDatasets
  \/ LoadDatasetsFail
  \/ \E d \in DatasetNames : SelectDataset(d)
  \/ \E o \in OutputNames : SetOutputDir(o)
  \/ \E d \in DatasetNames : RemoveFile(d)
  \/ ModelsNext

\* filling in the Training form, also while the model list is being fetched
ModelsSpec == ProgressInit /\ [][FormNext]_vars

DatasetInit == Init /\ runtime.container = "running"

\* uploading datasets from the Dataset tab, the container being up
DatasetSpec == DatasetInit /\ [][AppNext \/ UploadNext]_vars

\* the App at rest, with nothing in the stores
IdleInit == HistoryInit /\ runs = <<>>

\* trying trained models in ModelTesting
TestingSpec == IdleInit /\ [][TestingNext]_vars

(* ------------------------------ claims ------------------------------- *)
RunningRuns == {r \in DOMAIN runs : runs[r].status = "running"}

\* C1 (as stated): while a job is running no POST /training/start is
\* dispatched by the form.
C1_NoDispatchWhileRunning ==
  [][job.running => Len(startReqs') <= Len(startReqs)]_vars

\* C1 (amended): the form does not look at the job state.  Every submission
\* (starting goes from false to true) dispatches one POST /training/start
\* carrying the form's config, also while a job is running; it is the server
\* that rejects a start handled while a job is running, creating no run.
C1_DispatchedThenRejectedByServer ==
  [][ /\ (~starting /\ starting') =>
           /\ Len(startReqs') = Len(startReqs) + 1
           /\ startReqs'[Len(startReqs')].resp = "none"
           /\ startReqs'[Len(startReqs')].payload = StartPayload(config)
      /\ \A i \in DOMAIN startReqs :
           (job.running /\ startReqs[i].resp = "none"
              /\ Len(startReqs') = Len(startReqs)
              /\ startReqs'[i].resp # "none")
           => (startReqs'[i].resp = "rejected" /\ runs' = runs) ]_vars

\* C1 witness: a dispatched request naming an existing dataset has been
\* rejected by the server, which can only be because a job was running.
C1_Witness ==
  /\ job.running
  /\ \E i \in DOMAIN startReqs :
       /\ startReqs[i].resp = "rejected"
       /\ DatasetExists(startReqs[i].payload.dataset_path)

\* C2: at most one TrainingRun is running, and the job slot is occupied
\* exactly when a run is running.
C2_AtMostOneRunning ==
  /\ Cardinality(RunningRuns) <= 1
  /\ job.running <=> RunningRuns # {}
  /\ job.running => RunningRuns = {job.run}

\* C2 witness: a second run is running after the first one ended, and a
\* further start has been rejected.
C2_Witness ==
  /\ Len(runs) = 2 /\ runs[1].status \in Terminal /\ runs[2].status = "running"
  /\ \E i \in DOMAIN startReqs : startReqs[i].resp = "rejected"

\* C3 (as stated): an accepted start creates exactly one new running
\* TrainingRun, and the status the UI holds right after start has returned
\* (before any poll) has running = true.
C3_RunningRightAfterStart ==
  [][ /\ \A i \in DOMAIN startReqs :
           (startReqs[i].resp = "none" /\ Len(startReqs') = Len(startReqs)
              /\ startReqs'[i].resp = "accepted")
           => /\ Len(runs') = Len(runs) + 1
              /\ runs'[Len(runs')].status = "running"
              /\ job'.running
      /\ \A i \in DOMAIN startReqs :
           (startReqs[i].resp = "accepted" /\ StartResolve(i))
           => status'.running ]_vars

\* C4 (as stated): while the displayed status stays with one run and is
\* running, its progress never decreases from one displayed value to the next.
C4_ProgressNonDecreasing ==
  [][ (activeTab' = activeTab /\ statusRun # 0 /\ statusRun' = statusRun
         /\ status.running /\ status'.running)
      => status'.progress >= status.progress ]_vars

\* C5 (as stated): a rejected start creates no TrainingRun, and when its
\* response reaches the form the user gets a message while isTraining and the
\* active tab stay as they are.
C5_RejectionLeavesNoState ==
  [][ /\ \A i \in DOMAIN startReqs :
           (startReqs[i].resp = "none" /\ Len(startReqs') = Len(startReqs)
              /\ startReqs'[i].resp = "rejected")
           => runs' = runs /\ job' = job
      /\ \A i \in DOMAIN startReqs :
           (startReqs[i].resp = "rejected"
              /\ (StartResolve(i) \/ StartFail(i)))
           => /\ isTraining' = isTraining
              /\ activeTab' = activeTab
              /\ alert' = "Failed to start training" ]_vars

\* C6: a checkStatus call of the mounted DockerSetup that settles leaves a
\* non-null status with a non-empty message, which is either the server's
\* answer or reports docker_installed = false and container_running = false;
\* once non-null, the status stays non-null while DockerSetup is mounted.
C6_AlwaysRenderableStatus ==
  [][ (activeTab = "docker" /\ activeTab' = "docker") =>
        /\ \A i \in DOMAIN checks :
             (checks[i].live /\ checks' = RemoveAt(checks, i))
             => /\ dockerStatus' # Null
                /\ dockerStatus'.message # ""
                /\ \/ dockerStatus' = checks[i].status
                   \/ /\ ~dockerStatus'.docker_installed
                      /\ ~dockerStatus'.container_running
        /\ dockerStatus # Null => dockerStatus' # Null ]_vars

\* C6 witness: a failed check has left the fallback status.
C6_Witness ==
  /\ activeTab = "docker" /\ ~checking
  /\ dockerStatus # Null
  /\ dockerStatus.message = "Failed to check Docker status"
  /\ ~dockerStatus.docker_installed /\ ~dockerStatus.container_running

\* C7: a run's status is running, completed or failed; runs are never
\* removed; a status changes only from running to completed or failed; and
\* whenever the job slot becomes occupied a new run has been appended.
C7_RunLifecycle ==
  [][ /\ \A r \in DOMAIN runs :
           /\ r \in DOMAIN runs'
           /\ runs[r].status \in {"running", "completed", "failed"}
           /\ runs'[r].status # runs[r].status =>
                (runs[r].status = "running" /\ runs'[r].status \in Terminal)
      /\ (~job.running /\ job'.running) =>
           /\ Len(runs') = Len(runs) + 1
           /\ job'.run = Len(runs')
           /\ runs'[Len(runs')].status = "running" ]_vars

\* C7 witness: two runs, both sealed.
C7_Witness ==
  /\ Len(runs) = 2 /\ runs[1].status \in Terminal /\ runs[2].status \in Terminal
  /\ runs[1].status # runs[2].status

C9_StatusChangesOnlyByCheck ==
  [][ (activeTab = "docker" /\ activeTab' = "docker") =>
        /\ dockerStatus' # dockerStatus =>
             (Len(checks') = Len(checks) - 1 /\ dockerReqs' = dockerReqs)
        /\ dockerReqs' # dockerReqs => dockerStatus' = dockerStatus ]_vars

\* C9 witness: a start call has been answered and the container runs, yet
\* the status shown still says it does not.
C9_Witness ==
  /\ activeTab = "docker" /\ dockerStatus # Null
  /\ ~dockerStatus.container_running
  /\ runtime.container = "running"
  /\ \E i \in DOMAIN dockerReqs :
       dockerReqs[i].kind = "start" /\ dockerReqs[i].resp = "ok"

\* C10: as long as no TrainingRun has been created the status held by the UI
\* is the idle sentinel.
C10_IdleUntilFirstRun ==
  Len(runs) = 0 =>
    status = [running |-> FALSE, progress |-> 0, current_step |-> 0,
              total_steps |-> 0, loss |-> LossNull,
              message |-> "No training in progress"]

\* C10 witness: no run has ever been created, yet polling is active (a start
\* was rejected) and a poll is in flight.
C10_Witness ==
  /\ Len(runs) = 0 /\ isTraining /\ activeTab = "progress" /\ polls # EmptyBag

\* C11: a load of an unknown run id makes getTrainingRun throw, and when it
\* settles useTrainingRun holds a non-null error and loading = false and its
\* runDetails are what they were; runDetails never hold a run the store does
\* not know.
C11_UnknownRunFails ==
  [][ /\ \A id \in RunIds \ DOMAIN runs : ~GetTrainingRun(HistoryGet(id)).ok
      /\ \A i \in DOMAIN runLoads :
           (runLoads[i].id \notin DOMAIN runs
              /\ runLoads' = RemoveAt(runLoads, i))
           => /\ rdError' # NullName
              /\ ~rdLoading'
              /\ runDetails' = runDetails
      /\ runDetails' # Null => runDetails'.run.id \in DOMAIN runs ]_vars

\* C11 witness: the load of an unknown id has settled with NotFound.
C11_Witness ==
  /\ selectedRunId \in RunIds \ DOMAIN runs
  /\ runLoads = <<>> /\ ~rdLoading
  /\ rdError = "Failed to fetch training run"
  /\ runDetails = Null

\* C12: when the response of an accepted start reaches handleSubmit the
\* active tab becomes Progress and isTraining becomes true; isTraining is set,
\* and the tab changes without a click on a tab button, only in a step that
\* consumes a start response, never in the step that dispatches the request
\* or in the one in which the server handles it.
C12_SwitchAfterStartResolves ==
  [][ /\ \A i \in DOMAIN startReqs :
           (startReqs[i].resp = "accepted" /\ StartResolve(i))
           => (activeTab' = "progress" /\ isTraining')
      /\ (~isTraining /\ isTraining') =>
           \E i \in DOMAIN startReqs :
             startReqs[i].resp # "none" /\ StartResolve(i)
      /\ Len(startReqs') >= Len(startReqs) =>
           /\ isTraining' = isTraining
           /\ activeTab' # activeTab => \E t \in Tabs : SetActiveTab(t) ]_vars

\* C12 witness: the accepted start has resolved; Progress is shown and a
\* poll of the running job is under way.
C12_Witness ==
  /\ activeTab = "progress" /\ isTraining /\ startReqs = <<>>
  /\ job.running /\ Len(runs) = 1
  /\ polls # EmptyBag

\* C13 (as stated): while the status shown says that Docker is installed and
\* the image is not pulled, DockerSetup offers a way to issue a start; and a
\* start handled by the server in that state pulls the image and then runs
\* the container.
C13_StartPossibleWithoutImage ==
  [][ /\ (activeTab = "docker" /\ dockerStatus # Null
            /\ dockerStatus.docker_installed /\ ~dockerStatus.image_pulled)
         => StartButton
      /\ \A i \in DOMAIN dockerReqs :
           (runtime.installed /\ ~runtime.image /\ DockerStart(i))
           => (runtime'.image /\ runtime'.container = "running") ]_vars

\* requests of a queue that the server has not handled yet
Unhandled(s) == Cardinality({i \in DOMAIN s : s[i].resp = "none"})
SentUploads == Cardinality({i \in DOMAIN uploadReqs :
                              uploadReqs[i].phase = "sent"})

\* C14: a start-training, start/stop-container or upload request on its way
\* to the server appears only in a step in which the user submits the form,
\* clicks Start or Stop, or hands over a file -- never in a step in which a
\* request fails or settles; status checks are issued without such a step.
C14_NoAutomaticRetry ==
  [][ /\ Unhandled(startReqs') > Unhandled(startReqs) => HandleSubmit
      /\ Unhandled(dockerReqs') > Unhandled(dockerReqs) =>
           (HandleStartContainer \/ HandleStopContainer)
      /\ SentUploads' > SentUploads =>
           \E f \in DatasetNames : HandleFileUpload(f)
      /\ \A i \in DOMAIN startReqs :
           StartFail(i) => Len(startReqs') = Len(startReqs) - 1
      /\ \A i \in DOMAIN dockerReqs :
           DockerReqFail(i) => (Len(dockerReqs') = Len(dockerReqs) - 1
                                  /\ timers' = timers /\ checks' = checks)
      /\ \A i \in DOMAIN uploadReqs :
           UploadFail(i) => Len(uploadReqs') = Len(uploadReqs) - 1 ]_vars

\* C14 witness: an upload has failed and nothing is on its way, while the
\* form is free for the user to try again.
C14_Witness ==
  /\ activeTab = "upload" /\ alert = "Failed to upload dataset"
  /\ ~uploading /\ uploadReqs = <<>> /\ startReqs = <<>>

\* C15 (as stated): a failed status poll is surfaced -- what TrainingProgress
\* displays, which is a function of its status state, changes to tell of the
\* failure -- and the next successful poll shows the server's data again.
C15_PollFailureSurfaced ==
  [][ /\ \A p \in BagToSet(polls) : FetchStatusFail(p) => status' # status
      /\ \A p \in BagToSet(polls) :
           FetchStatusResolve(p) => status' = p.status ]_vars

C17_DetailsMatchSelection ==
  (selectedRunId # 0 /\ runLoads = <<>>) =>
    (runDetails = Null \/ runDetails.run.id = selectedRunId)

\* the POST /docker/start calls still awaited by a handler
PendingStarts == SelectSeq(dockerReqs, LAMBDA r : r.kind = "start")

\* C18: a start click made while earlier start calls are still awaited is
\* not suppressed: the handler is enabled whatever is pending, it issues one
\* more POST /docker/start and leaves the earlier ones alone, and every
\* start call that resolves schedules one more follow-up status check,
\* whatever checks are already scheduled.
C18_StartNotDeduplicated ==
  [][ /\ (StartButton /\ CanIssue) => ENABLED HandleStartContainer
      /\ HandleStartContainer =>
           /\ Len(dockerReqs') = Len(dockerReqs) + 1
           /\ SubSeq(dockerReqs', 1, Len(dockerReqs)) = dockerReqs
           /\ dockerReqs'[Len(dockerReqs')].kind = "start"
           /\ dockerReqs'[Len(dockerReqs')].resp = "none"
      /\ \A i \in DOMAIN dockerReqs :
           (dockerReqs[i].kind = "start" /\ DockerReqResolve(i)) =>
             Len(timers') = Len(timers) + 1 ]_vars

\* C18 witness: two start calls are awaited at once, the second issued before
\* the first resolved; the server has answered both and each is about to
\* schedule its follow-up check.
C18_Witness ==
  /\ Len(PendingStarts) = 2
  /\ \A i \in DOMAIN PendingStarts :
       PendingStarts[i].live /\ PendingStarts[i].resp = "ok"

\* C19: a status poll is issued only while isTraining holds and
\* TrainingProgress is mounted, and in every such state the next tick issues
\* one, whatever the job state and whatever status is on display; isTraining
\* never returns to false, and it rises only when a start request of this
\* session resolves; while it is false the displayed status is the initial
\* idle value.
C19_PollIffTrainingAndMounted ==
  [][ /\ BagCardinality(polls') > BagCardinality(polls) =>
           (activeTab = "progress" /\ isTraining)
      /\ (activeTab = "progress" /\ isTraining /\ CanIssue) =>
           ENABLED FetchStatus
      /\ isTraining => isTraining'
      /\ (~isTraining /\ isTraining') =>
           \E i \in DOMAIN startReqs : StartResolve(i)
      /\ ~isTraining => (status = InitialStatus /\ polls = EmptyBag) ]_vars

\* C19 witness: the job has ended, TrainingProgress displays its terminal
\* status, and a poll issued after the end is in flight.
C19_Witness ==
  /\ activeTab = "progress" /\ isTraining
  /\ ~job.running /\ statusRun = Len(runs) /\ statusRun > 0
  /\ ~status.running /\ status.current_step = job.step
  /\ \E p \in BagToSet(polls) : p.status = status /\ p.run = statusRun

\* C20 (as stated): when the model list arrives and loadModels replaces
\* config.model_name, every other field of config keeps the value it had.
C20_OtherFieldsKept ==
  [][ \A ms \in ModelLists :
        (LoadModels(ms) /\ config'.model_name # config.model_name) =>
          config' = [config EXCEPT !.model_name = config'.model_name] ]_vars

\* C21: whenever the Dataset, Training or Progress tab is the active one,
\* dockerReady is true.
C21_GatedTabsNeedDockerReady ==
  activeTab \in GatedTabs => dockerReady

\* C21 witness: the Progress tab was entered by the automatic switch after a
\* start, in a session whose dockerReady came from DockerSetup's onReady
\* while checkIfReady had not yet answered.
C21_Witness ==
  /\ activeTab = "progress" /\ isTraining /\ dockerReady
  /\ readyCheck = "pending"

\* C22: once dockerReady is true no step makes it false; it becomes true
\* only when checkIfReady or a checkStatus of DockerSetup resolves with a
\* status that reports a running container.
C22_DockerReadyLatch ==
  [][ /\ dockerReady => dockerReady'
      /\ (~dockerReady /\ dockerReady') =>
           \/ CheckIfReadyResolve /\ runtime.container = "running"
           \/ \E i \in DOMAIN checks :
                CheckStatusResolve(i) /\ checks[i].status.container_running
    ]_vars

\* C22 witness: dockerReady is true while the container has been stopped and
\* DockerSetup displays a status that reports it as not running.
C22_Witness ==
  /\ dockerReady
  /\ runtime.container = "stopped"
  /\ dockerStatus # Null /\ dockerStatus.docker_installed
  /\ ~dockerStatus.container_running

\* C23 (as stated): a start request is dispatched only with both fields
\* filled in, starting false and no earlier start request still in flight;
\* and when a start request completes, by success or failure, starting is
\* false afterwards.
C23_OneStartInFlight ==
  [][ /\ HandleSubmit =>
           /\ config.dataset_path # "" /\ config.output_dir # ""
           /\ ~starting /\ startReqs = <<>>
      /\ \A i \in DOMAIN startReqs :
           (StartResolve(i) \/ StartFail(i)) => ~starting' ]_vars

\* C24 (as stated): after an upload that succeeds the list is fetched again
\* and, that fetch succeeding, the displayed list holds the uploaded
\* dataset; after an upload that fails, by an error response or by a
\* rejected call, no fetch of the list follows and the displayed list stays.
C24_RefetchOnlyAfterSuccess ==
  [][ \A i \in DOMAIN uploadReqs :
        /\ (uploadReqs[i].phase = "stored" /\ uploadReqs[i].live
              /\ UploadResolve(i)) => uploadReqs'[i].phase = "refetch"
        /\ RefetchSettle(i, TRUE) => uploadReqs[i].file \in upDatasets'
        /\ (uploadReqs[i].phase = "refused" /\ UploadResolve(i)) =>
              /\ Len(uploadReqs') < Len(uploadReqs)
              /\ upDatasets' = upDatasets
        /\ UploadFail(i) =>
              /\ Len(uploadReqs') < Len(uploadReqs)
              /\ upDatasets' = upDatasets ]_vars

\* C25: ModelTesting never holds a result and an error together, and while
\* an inference request is in flight it holds neither.
C25_ResultOrError ==
  /\ ~(result # "" /\ error # "")
  /\ loading => (result = "" /\ error = "")
  /\ loading <=> inferReqs # <<>>

\* C25 witness: an inference request for the second model of the list is in
\* flight; the output panel is empty.
C25_Witness ==
  /\ loading /\ inferReqs # <<>>
  /\ selectedModel = "n" /\ Trim(prompt) # ""
  /\ result = "" /\ error = ""

\* C26: the payload of a dispatched start is the form's config with
\* '../work/models/' put once in front of the entered output name, its
\* dataset_path being '../work/datasets/' followed by the name of the
\* chosen dataset; dispatching leaves the form's config as it was.
C26_PayloadSnapshot ==
  [][ HandleSubmit =>
        LET sent == startReqs'[Len(startReqs')].payload
        IN  /\ Len(startReqs') = Len(startReqs) + 1
            /\ config' = config
            /\ \E o \in OutputNames :
                 /\ config.output_dir = o
                 /\ sent.output_dir = "../work/models/" \o o
            /\ \E d \in DatasetNames :
                 sent.dataset_path = "../work/datasets/" \o d
            /\ sent = [config EXCEPT !.output_dir = sent.output_dir] ]_vars

\* C26 witness: a start request has failed and the form has been submitted
\* again; the request in flight carries the prefixed name and the form still
\* holds the bare one.
C26_Witness ==
  /\ alert = "Failed to start training"
  /\ activeTab = "train" /\ starting
  /\ Len(startReqs) = 1 /\ startReqs[1].live
  /\ startReqs[1].payload.output_dir = "../work/models/m"
  /\ config.output_dir = "m"

\* App on the Docker tab before anything has happened, no run recorded
IdleApp ==
  /\ activeTab = "docker" /\ isTraining = FALSE /\ dockerReady = FALSE
  /\ readyCheck = "pending"
  /\ config = DefaultConfig /\ starting = FALSE /\ datasets = {}
  /\ dsLoad = FALSE /\ alert = ""
  /\ startReqs = <<>>
  /\ status = InitialStatus /\ statusRun = 0 /\ polls = EmptyBag
  /\ stopReqs = 0
  /\ runtime = [installed |-> TRUE, image |-> TRUE, container |-> "running"]
  /\ dockerStatus = Null /\ checking = TRUE /\ containers = {}
  /\ selectedContainer = NullName
  /\ checks = <<>> /\ timers = <<>> /\ dockerReqs = <<>>
  /\ runs = <<>>
  /\ job = [running |-> FALSE, step |-> 0, run |-> 0]
  /\ files = DatasetNames
  /\ availableModels = DefaultModels /\ mdLoad = FALSE
  /\ UploadInit
  /\ HistoryHookInit
  /\ SettingsInit

\* useResources alone, from the state after its first n fetches, n being
\* within MaxFetches of the number of samples the history keeps
ResourcesStart ==
  /\ IdleApp
  /\ TestingInit
  /\ MaskInit
  /\ \E n \in (HistoryCap - MaxFetches)..HistoryCap : ResourcesInit(n)

ResourcesSpec == ResourcesStart /\ [][ResourcesNext]_vars

\* C27: the history never holds more than 30 samples and is the last (up to
\* 30) of the samples fetched with success, in the order they arrived, the
\* newest being the value of resources; a failed fetch changes neither and
\* sets the error.
C27_HistoryIsLastThirty ==
  [][ /\ Len(history') <= 30
      /\ history' = SubSeq(arrived', (IF Len(arrived') > 30
                                      THEN Len(arrived') - 29 ELSE 1),
                           Len(arrived'))
      /\ arrived' # <<>> => resources' = [sample |-> arrived'[Len(arrived')]]
      /\ (\E i \in 1..MaxInFlight : FetchResourcesFail(i)) =>
           /\ history' = history /\ resources' = resources
           /\ resError' # NullName ]_vars

\* C27 witness: more than 30 samples have arrived, out of the order they were
\* asked for and with a failure among them, and the oldest have been dropped
C27_Witness ==
  /\ Len(arrived) > 30 /\ Len(history) = 30
  /\ history[1] = arrived[Len(arrived) - 29]
  /\ \E k \in 1..(Len(arrived) - 1) : arrived[k] > arrived[k + 1]
  /\ resError # NullName

\* the Settings tab, entered from and left for the Progress tab
SettingsTabNext ==
  \/ \E t \in {"settings", "progress"} : SetActiveTab(t)
  \/ SettingsNext

SettingsSpec == ProgressInit /\ [][SettingsTabNext]_vars

\* C28: while Settings stays mounted savedToken changes only when a response
\* arrives: a save or clear that fails (answer not ok, or fetch rejected)
\* keeps savedToken and sets an error message, an ok save makes savedToken
\* the token that was sent, an ok clear makes it empty, and saving is false
\* once the request has completed.
C28_SavedTokenOnlyOnOk ==
  [][ /\ (activeTab' = activeTab /\ savedToken' # savedToken) =>
           \/ LoadTokenSettle
           \/ \E i \in DOMAIN tokenReqs :
                TokenSettle(i) /\ tokenReqs[i].live /\ tokenReqs[i].resp = "ok"
      /\ \A i \in DOMAIN tokenReqs :
           (TokenSettle(i) /\ tokenReqs[i].live) =>
             /\ ~saving'
             /\ tokenReqs[i].resp = "ok" =>
                  /\ tokenReqs[i].kind = "save" =>
                       savedToken' = tokenReqs[i].token /\ savedToken' # ""
                  /\ tokenReqs[i].kind = "clear" => savedToken' = ""
                  /\ message'.type = "success"
             /\ tokenReqs[i].resp # "ok" =>
                  savedToken' = savedToken /\ message'.type = "error"
      /\ \A i \in DOMAIN tokenReqs :
           (TokenFail(i) /\ tokenReqs[i].live) =>
             /\ ~saving'
             /\ savedToken' = savedToken /\ message'.type = "error" ]_vars

\* C28 witness: with "hf_a" saved, a save of "hf_b" has been refused: the
\* saved token is still "hf_a", an error is shown and saving is over
C28_Witness ==
  /\ activeTab = "settings"
  /\ savedToken = "hf_a" /\ hfToken = "hf_b" /\ storedToken = "hf_a"
  /\ message = FailedMessage("save")
  /\ ~saving /\ tokenReqs = <<>>

\* C29: a Start issued from the row of a listed container sends a start
\* request that carries the name of that container, and Create New Container
\* sends one that carries no name.
C29_RowStartCarriesName ==
  [][ \A n \in {NullName, ContainerName} :
        HandleStartContainerArg(n) =>
          /\ Len(dockerReqs') = Len(dockerReqs) + 1
          /\ dockerReqs'[Len(dockerReqs')].kind = "start"
          /\ dockerReqs'[Len(dockerReqs')].name = n ]_vars

\* maskToken applied to every token of at most MaxTokenLen characters
TokensUpTo(n) == UNION {[1..k -> TokenChars] : k \in 0..n}

MaskStart ==
  /\ IdleApp
  /\ TestingInit
  /\ ResourcesInit(0)
  /\ token \in TokensUpTo(MaxTokenLen) /\ masked = <<>>

MaskSpec == MaskStart /\ [][ShowMasked]_vars

\* C30: the masked token is as long as the token; a token of at most 8
\* characters is masked whole, and of a longer one the first 4 and the last
\* 4 characters are kept and every character between them is masked.
C30_MaskKeepsFourAndFour ==
  [][ ShowMasked =>
        /\ Len(masked') = Len(token)
        /\ \A k \in 1..Len(token) :
             masked'[k] = IF Len(token) > 8 /\ (k <= 4 \/ k > Len(token) - 4)
                          THEN token[k] ELSE Bullet ]_vars

\* C30 witness: a token of more than 8 characters is shown with its middle
\* masked and its ends kept
C30_Witness ==
  /\ Len(token) > 8 /\ Len(masked) = Len(token)
  /\ masked[4] = token[4] /\ masked[5] = Bullet
  /\ masked[Len(token) - 4] = Bullet
  /\ masked[Len(token) - 3] = token[Len(token) - 3]
  /\ token[5] = "a" /\ token[Len(token) - 3] = "b"
====
